---- MODULE Spec2Model ----
(***************************************************************************)
(* PyWATER (pywater.py): identification of conserved water molecules.      *)
(* The model follows one call of FindConservedWaters and the call of       *)
(* makePDBwithConservedWaters it makes: input validation, construction of  *)
(* the structure list, download, refinement filter, collection of the      *)
(* water atoms, flat clustering, the loop over the clusters (resolution,   *)
(* score, presence-matrix row, conserved-water dictionary), the extraction *)
(* of the query's atoms and the removal of the temporary directory.        *)
(*                                                                         *)
(* Numbers: occupancies are in hundredths, B-factors are integers, the     *)
(* probability threshold and the scores are exact fractions <<num, den>>.  *)
(* A Python float that goes through str() and float() is modelled as a     *)
(* decimal of DoubleDigits significant digits.                             *)
(***************************************************************************)
EXTENDS Integers, Sequences, FiniteSets, TLC

(***************************************************************************)
(* Bounds of the model.                                                    *)
(***************************************************************************)
\* Longest structure list (user-defined list, or list fetched from the PDB).
MaxList == 3
\* The ceiling on the number of merged water atoms (50000 in the code).
WaterCeiling == 5

(***************************************************************************)
(* Program constants.                                                      *)
(***************************************************************************)
mobilityCutoff == 2
normBCutoff == 1
\* significant digits of str(float) under Python 2 ('%.12g')
Py2StrDigits == 12
\* significant digits that identify an IEEE double
DoubleDigits == 17

(***************************************************************************)
(* The structures of the model's world: the PDB entries the remote         *)
(* database knows and, for each, the water-only file PyMOL saves for it    *)
(* (cwm_<name>_Water.pdb): its HETATM lines in file order, each with the   *)
(* atom number, the occupancy and the B-factor (both in hundredths).       *)
(***************************************************************************)
Query == "1qqq_A"
Names == {"1qqq_A", "2aaa_A", "4ccc_A", "6eee_A"}

\* Rank of a structure name in Python's string order.
NameRank(s) ==
    CASE s = "1qqq_A" -> 1
      [] s = "2aaa_A" -> 2
      [] s = "4ccc_A" -> 4
      [] s = "6eee_A" -> 6

HetAtm(n, o, b) == [num |-> n, occ |-> o, bfac |-> b]

\* 1qqq: the second atom is one either filter would remove.
\* 4ccc: Mobility flags two atoms of three, Normalized B-factor flags one.
SavedWaterFile(s) ==
    CASE s = "1qqq_A" -> << HetAtm(9, 100, 1000), HetAtm(10, 20, 5000) >>
      [] s = "2aaa_A" -> << HetAtm(7, 100, 2000) >>
      [] s = "4ccc_A" -> << HetAtm(101, 100, 1000), HetAtm(102, 10, 2000),
                            HetAtm(103, 10, 6000) >>
      [] s = "6eee_A" -> << >>

(***************************************************************************)
(* Sequence helpers (Python list operations).                              *)
(***************************************************************************)
Range(s) == { s[i] : i \in DOMAIN s }

\* list.remove(x): drops the first element equal to x.
RECURSIVE RemoveFirst(_, _)
RemoveFirst(s, x) ==
    IF s = << >> THEN << >>
    ELSE IF Head(s) = x THEN Tail(s)
    ELSE << Head(s) >> \o RemoveFirst(Tail(s), x)

\* list.pop(i) / del s[i], 1-based.
RemoveAt(s, i) == SubSeq(s, 1, i - 1) \o SubSeq(s, i + 1, Len(s))

\* [x for x in s if x in S]
RECURSIVE SelectIn(_, _)
SelectIn(s, S) ==
    IF s = << >> THEN << >>
    ELSE (IF Head(s) \in S THEN << Head(s) >> ELSE << >>) \o SelectIn(Tail(s), S)

\* number of elements of s that lie in S
Count(s, S) == Len(SelectIn(s, S))

\* All sequences over S of length lo..hi.
SeqsOf(S, lo, hi) == UNION { [1..n -> S] : n \in lo..hi }

IsInjective(s) == \A i, j \in DOMAIN s : s[i] = s[j] => i = j

(***************************************************************************)
(* Decimal text of numbers.                                                *)
(***************************************************************************)
\* str(int(n)) for n >= 0, as its sequence of digits.
RECURSIVE DecStr(_)
DecStr(n) == IF n < 10 THEN << n >> ELSE DecStr(n \div 10) \o << n % 10 >>

\* Python's string order on two digit strings.
RECURSIVE LexLess(_, _)
LexLess(a, b) ==
    IF b = << >> THEN FALSE
    ELSE IF a = << >> THEN TRUE
    ELSE IF Head(a) # Head(b) THEN Head(a) < Head(b)
    ELSE LexLess(Tail(a), Tail(b))

\* A decimal: integer part ip and the digits after the point, no trailing zero.
RECURSIVE StripZeros(_)
StripZeros(ds) ==
    IF ds # << >> /\ ds[Len(ds)] = 0 THEN StripZeros(SubSeq(ds, 1, Len(ds) - 1))
    ELSE ds

\* ds + 1 in the last place; carry is 1 when every digit was 9.
RECURSIVE IncDigits(_)
IncDigits(ds) ==
    IF ds = << >> THEN [ds |-> << >>, carry |-> 1]
    ELSE LET n == Len(ds) IN
         IF ds[n] < 9 THEN [ds |-> [ds EXCEPT ![n] = @ + 1], carry |-> 0]
         ELSE LET r == IncDigits(SubSeq(ds, 1, n - 1))
              IN  [ds |-> r.ds \o << 0 >>, carry |-> r.carry]

\* Long division r/n (0 <= r < n): the digits up to the m-th significant one,
\* and the remainder left.  started: a nonzero digit was already produced.
RECURSIVE SigDiv(_, _, _, _)
SigDiv(r, n, m, started) ==
    IF m = 0 \/ r = 0 THEN [ds |-> << >>, rem |-> r]
    ELSE LET d == (10 * r) \div n
             sig == started \/ d > 0
             rest == SigDiv((10 * r) % n, n, IF sig THEN m - 1 ELSE m, sig)
         IN  [ds |-> << d >> \o rest.ds, rem |-> rest.rem]

\* The quotient k/n (0 <= k <= n, n > 0) rounded to m significant digits.
DecOfFraction(k, n, m) ==
    IF k = n THEN [ip |-> 1, frac |-> << >>]
    ELSE LET q == SigDiv(k, n, m, FALSE)
             up == 2 * q.rem >= n /\ q.rem > 0
             r == IF up THEN IncDigits(q.ds) ELSE [ds |-> q.ds, carry |-> 0]
         IN  [ip |-> r.carry, frac |-> StripZeros(r.ds)]

\* Position of the m-th significant digit of a digit sequence (0: fewer).
RECURSIVE SigPos(_, _, _, _)
SigPos(ds, i, m, started) ==
    IF i > Len(ds) THEN 0
    ELSE LET sig == started \/ ds[i] > 0 IN
         IF sig /\ m = 1 THEN i
         ELSE SigPos(ds, i + 1, IF sig THEN m - 1 ELSE m, sig)

\* A decimal below 1 or equal to 1 rounded to m significant digits.
RoundSig(dec, m) ==
    IF dec.ip = 1 THEN dec
    ELSE LET p == SigPos(dec.frac, 1, m, FALSE) IN
         IF p = 0 \/ p = Len(dec.frac) THEN dec
         ELSE LET kept == SubSeq(dec.frac, 1, p)
                  r == IF dec.frac[p + 1] >= 5 THEN IncDigits(kept)
                       ELSE [ds |-> kept, carry |-> 0]
              IN  [ip |-> r.carry, frac |-> StripZeros(r.ds)]

\* float(k) / n as an IEEE double.
FloatDiv(k, n) == DecOfFraction(k, n, DoubleDigits)

\* str(x) of a float: '%.12g' under Python 2, the shortest text that reads
\* back as x (repr) under Python 3.
StrOfFloat(py, x) == IF py = 2 THEN RoundSig(x, Py2StrDigits) ELSE x

\* float(text): the double nearest to the decimal text (the text has at most
\* DoubleDigits significant digits, so it is that decimal).
FloatOfStr(text) == RoundSig(text, DoubleDigits)

(***************************************************************************)
(* Refinement filter: okMobility and okBfactor.                            *)
(* A water file is its HETATM lines followed by one END line, so that      *)
(* nWaters = len(pdbFileLines) - 1 is the number of HETATM lines.          *)
(***************************************************************************)
RECURSIVE SumOcc(_)
SumOcc(ws) == IF ws = << >> THEN 0 ELSE Head(ws).occ + SumOcc(Tail(ws))

RECURSIVE SumB(_)
SumB(ws) == IF ws = << >> THEN 0 ELSE Head(ws).bfac + SumB(Tail(ws))

RECURSIVE SumBSq(_)
SumBSq(ws) ==
    IF ws = << >> THEN 0 ELSE Head(ws).bfac * Head(ws).bfac + SumBSq(Tail(ws))

\* m = (B/avgB)/(O/avgO) >= mobilityCutoff, with avgB = SumB/n, avgO = SumOcc/n.
\* numpy's float64 division does not raise: x/0 is inf (x > 0) or nan (x = 0),
\* inf >= c is true and nan >= c is false.
MobilityTooHigh(w, ws) ==
    LET sb == SumB(ws)
        so == SumOcc(ws)
    IN  IF sb = 0 \/ so = 0 THEN FALSE
        ELSE IF w.occ = 0 THEN w.bfac > 0
        ELSE w.bfac * so >= mobilityCutoff * w.occ * sb

\* The test of line 319 with > in place of >=.
NormBTooHighStrict(w, ws) ==
    LET n == Len(ws)
        d == n * w.bfac - SumB(ws)
        v == n * SumBSq(ws) - SumB(ws) * SumB(ws)
    IN  IF v = 0 THEN FALSE
        ELSE d >= 0 /\ d * d > normBCutoff * normBCutoff * v

\* avg = np.mean(Bfactors) for n equal B-factors b, in IEEE-754 doubles: the
\* sum ((b + b) + b) + ... is rounded at each addition, and so is its quotient
\* by n, so that avg can come out one unit in the last place below b.  Among
\* the B-factors of the model (with up to 5 atoms in a file) it does for three
\* atoms of B-factor 1.56; for the others avg is b or lies above b.
MeanRoundsBelow(b, n) == << b, n >> \in { << 156, 3 >> }

\* normB = (B - avg)/stddev >= normBCutoff, stddev = sqrt(var(Bfactors)).
\* With n = Len(ws): n*(B - avg) = n*B - SumB and n*n*var = n*SumBSq - SumB^2.
\* When every B is the same nothing guards the division.  If avg is that B,
\* stddev is 0, normB is 0/0 = nan and nan >= c is false; if avg is above it,
\* normB is -1.0; if avg is below it, B - avg = stddev > 0 and normB is 1.0.
NormBTooHigh(w, ws) ==
    LET n == Len(ws)
        d == n * w.bfac - SumB(ws)
        v == n * SumBSq(ws) - SumB(ws) * SumB(ws)
    IN  IF v = 0 THEN MeanRoundsBelow(w.bfac, n) /\ 1 >= normBCutoff
        ELSE d >= 0 /\ d * d >= normBCutoff * normBCutoff * v

\* The lines a filter removes from the file: those of the flagged atoms.
Flagged(mode, ws) ==
    { i \in DOMAIN ws :
        IF mode = "Mobility" THEN MobilityTooHigh(ws[i], ws)
        ELSE NormBTooHigh(ws[i], ws) }

\* The lines left, written in the order in which the reversed loop met them.
DropFlaggedReversed(lines, i, flagged) ==
    LET kept == SelectIn(lines, Range(lines) \ flagged)
    IN  [ j \in 1..Len(kept) |-> kept[Len(kept) + 1 - j] ]

\* for line in reversed(pdbFileLines): ... pdbFileLines.remove(line)
RECURSIVE DropFlagged(_, _, _)
DropFlagged(lines, i, flagged) ==
    IF i < 1 \/ i > Len(lines) THEN lines
    ELSE IF lines[i] \in flagged
         THEN DropFlagged(RemoveFirst(lines, lines[i]), i - 1, flagged)
         ELSE DropFlagged(lines, i - 1, flagged)

\* The test of lines 282 and 323 with >= in place of >.
OkRefinementAtHalf(mode, ws) ==
    LET nWaters == Len(ws)
        flagged == { ws[i] : i \in Flagged(mode, ws) }
        count == Cardinality(Flagged(mode, ws))
    IN  IF 2 * count >= nWaters THEN [considerPDB |-> FALSE, file |-> ws]
        ELSE IF count > 0
             THEN [considerPDB |-> TRUE,
                   file |-> DropFlagged(ws, Len(ws), flagged)]
             ELSE [considerPDB |-> TRUE, file |-> ws]

\* okMobility / okBfactor on one water file: the value returned (considerPDB)
\* and the file left on disk (rewritten only when 0 < count <= nWaters/2).
OkRefinement(mode, ws) ==
    LET nWaters == Len(ws)
        flagged == { ws[i] : i \in Flagged(mode, ws) }
        count == Cardinality(Flagged(mode, ws))
    IN  IF 2 * count > nWaters THEN [considerPDB |-> FALSE, file |-> ws]
        ELSE IF count > 0
             THEN [considerPDB |-> TRUE,
                   file |-> DropFlagged(ws, Len(ws), flagged)]
             ELSE [considerPDB |-> TRUE, file |-> ws]

(***************************************************************************)
(* Water atom ids, "xxxx_c_n": the structure (the first 6 characters) and  *)
(* the atom number (from character 7 on).                                  *)
(***************************************************************************)
AtomId(s, n) == [pdb |-> s, num |-> n]
Struct(a) == a.pdb
AtomNo(a) == DecStr(a.num)
\* The text of the 'NoWater' cell of the presence matrix (no atom number).
NoWater == << >>

\* Protein.calculate_water_coordinates: the ids of a structure's water file.
WaterIdsOf(s, ws) == [ i \in DOMAIN ws |-> AtomId(s, ws[i].num) ]

\* for protein in ProteinsList: water_ids += protein.water_ids
RECURSIVE CollectIds(_, _)
CollectIds(ps, files) ==
    IF ps = << >> THEN << >>
    ELSE WaterIdsOf(Head(ps), files[Head(ps)]) \o CollectIds(Tail(ps), files)

\* Python's order on the id strings (waterMols.sort()).
AtomLess(a, b) ==
    \/ NameRank(a.pdb) < NameRank(b.pdb)
    \/ a.pdb = b.pdb /\ LexLess(DecStr(a.num), DecStr(b.num))

(***************************************************************************)
(* The loop body over one cluster.                                         *)
(***************************************************************************)
StructsOf(waterMols) == { Struct(a) : a \in Range(waterMols) }

\* The loop below without reversed(): the removal shifts the list under the
\* iterator, which then skips the element after each one removed.
RECURSIVE ForwardRemove(_, _, _)
ForwardRemove(waterMols, idx, i) ==
    IF idx > Len(waterMols) THEN waterMols
    ELSE IF Struct(waterMols[idx]) = i
         THEN ForwardRemove(RemoveFirst(waterMols, waterMols[idx]), idx + 1, i)
         ELSE ForwardRemove(waterMols, idx + 1, i)

RemoveOfStructForward(waterMols, idx, i) == ForwardRemove(waterMols, 1, i)

\* for j in reversed(waterMols): if j[:6] == i: waterMols.remove(j)
RECURSIVE RemoveOfStruct(_, _, _)
RemoveOfStruct(waterMols, idx, i) ==
    IF idx < 1 \/ idx > Len(waterMols) THEN waterMols
    ELSE IF Struct(waterMols[idx]) = i
         THEN RemoveOfStruct(RemoveFirst(waterMols, waterMols[idx]), idx - 1, i)
         ELSE RemoveOfStruct(waterMols, idx - 1, i)

\* The loops of lines 540-544 with a break after the first removal: of a
\* structure counted more than once, only the last atom is removed.
RECURSIVE RemoveRepeatedLast(_, _)
RemoveRepeatedLast(waterMols, keys) ==
    IF keys = { } THEN waterMols
    ELSE LET i == CHOOSE k \in keys : TRUE
             at == { j \in DOMAIN waterMols : Struct(waterMols[j]) = i }
             last == CHOOSE j \in at : \A l \in at : l <= j
             next == IF Cardinality(at) > 1 THEN RemoveAt(waterMols, last)
                     ELSE waterMols
         IN  RemoveRepeatedLast(next, keys \ {i})

\* for i in PDBsCounter.keys(): if PDBsCounter.get(i) > 1: ...
RECURSIVE RemoveRepeated(_, _)
RemoveRepeated(waterMols, keys) ==
    IF keys = { } THEN waterMols
    ELSE LET i == CHOOSE k \in keys : TRUE
             n == Count(waterMols, { a \in Range(waterMols) : Struct(a) = i })
             next == IF n > 1 THEN RemoveOfStruct(waterMols, Len(waterMols), i)
                     ELSE waterMols
         IN  RemoveRepeated(next, keys \ {i})

\* Lines 531-544: the update of waterMols when a structure is in it twice.
ResolveCluster(waterMols) ==
    IF Cardinality(StructsOf(waterMols)) < Len(waterMols)
    THEN LET sorted == SortSeq(waterMols, AtomLess)
         IN  RemoveRepeated(sorted, StructsOf(sorted))
    ELSE waterMols

\* proteins_numbers: structure name -> its (last) 0-based position in the list.
ProteinsNumbers(proteins) ==
    [ s \in Range(proteins) |->
        (CHOOSE i \in DOMAIN proteins :
            proteins[i] = s /\ \A j \in DOMAIN proteins : proteins[j] = s => j <= i)
        - 1 ]

\* Lines 545-552: the members in the order of the structure list.
RECURSIVE OrderByList(_, _, _)
OrderByList(waterMols, pn, i) ==
    IF i < 0 THEN << >>
    ELSE OrderByList(waterMols, pn, i - 1)
         \o SelectIn(waterMols,
                     { a \in Range(waterMols) :
                         Struct(a) \in DOMAIN pn /\ pn[Struct(a)] = i })

\* Lines 560-571: the cells written while walking the members; k is the
\* number of cells written so far.
RECURSIVE RowCells(_, _, _)
RowCells(waterMols, pn, k) ==
    IF waterMols = << >> THEN << >>
    ELSE LET sr_no == pn[Struct(Head(waterMols))] IN
         IF sr_no = k
         THEN << AtomNo(Head(waterMols)) >> \o RowCells(Tail(waterMols), pn, k + 1)
         ELSE IF k < sr_no
              THEN [ j \in 1..(sr_no - k) |-> NoWater ]
                   \o << AtomNo(Head(waterMols)) >>
                   \o RowCells(Tail(waterMols), pn, sr_no + 1)
              ELSE RowCells(Tail(waterMols), pn, k)

\* The row without lines 572-573: no 'NoWater' after the last member.
PresenceRowNoPad(py, waterMols, proteins, k, n) ==
    [score |-> StrOfFloat(py, FloatDiv(k, n)),
     cells |-> RowCells(waterMols, ProteinsNumbers(proteins), 0)]

\* Lines 559-574: one row of the presence matrix.
PresenceRow(py, waterMols, proteins, k, n) ==
    LET pn == ProteinsNumbers(proteins)
        cells == RowCells(waterMols, pn, 0)
        pad == IF Len(proteins) > Len(cells) THEN Len(proteins) - Len(cells) ELSE 0
    IN  [score |-> StrOfFloat(py, FloatDiv(k, n)),
         cells |-> cells \o [ j \in 1..pad |-> NoWater ]]

\* The comparison of pycwms.py: probability > ProteinsList.probability.
AcceptedStrict(k, n, prob) == k * prob[2] > prob[1] * n

\* probability >= ProteinsList.probability, on exact fractions.
Accepted(k, n, prob) == k * prob[2] >= prob[1] * n

(***************************************************************************)
(* The arguments of FindConservedWaters and the remote database.           *)
(***************************************************************************)
\* resolution cutoff and inconsistency coefficient are in tenths of an Angstrom
MaxResolution == 30
MaxCoefficient == 28
ValidSeqIds == {"30", "40", "50", "70", "90", "95", "100"}
MinProb == << 2, 5 >>
MaxProb == << 1, 1 >>

FracLess(a, b) == a[1] * b[2] < b[1] * a[2]

SeqIds == {"95", "60"}
Resolutions == {18, 30, 31}
Coefficients == {-5, 24, 29}
Probs == { << 1, 3 >>, << 1, 2 >>, << 2, 3 >>, << 5, 4 >> }
Refinements == {"Mobility", "Normalized B-factor", "No refinement"}

\* The resolution the database reports for an entry ('null' for 6eee).
HasResolution(s) == s # "6eee_A"
ResolutionOf(s) ==
    CASE s = "1qqq_A" -> 20
      [] s = "2aaa_A" -> 15
      [] s = "4ccc_A" -> 25
      [] s = "6eee_A" -> 0

\* Lines 746-802: the first check that fails, in the order of the code
\* ("" when every check passes).  The query's PDB id and chain are those of
\* Query, which are well formed.
FirstFailure(a) ==
    IF a.seq_id \notin ValidSeqIds THEN "sequence identity"
    ELSE IF a.resolution > MaxResolution THEN "resolution"
    ELSE IF a.user_def_list # << >> /\ Len(a.user_def_list) = 1
         THEN "user defined list"
    ELSE IF a.inconsistency_coefficient > MaxCoefficient
         THEN "inconsistency coefficient"
    ELSE IF FracLess(MaxProb, a.prob) \/ FracLess(a.prob, MinProb)
         THEN "probability"
    ELSE ""

\* The argument tuples explored: every valid one, and those with one argument
\* out of its domain.
NumberOfFaults(a) ==
    Cardinality(
        {f \in {"s", "r", "u", "c", "p"} :
            \/ f = "s" /\ a.seq_id \notin ValidSeqIds
            \/ f = "r" /\ a.resolution > MaxResolution
            \/ f = "u" /\ Len(a.user_def_list) = 1
            \/ f = "c" /\ a.inconsistency_coefficient > MaxCoefficient
            \/ f = "p" /\ (FracLess(MaxProb, a.prob) \/ FracLess(a.prob, MinProb))})

Arguments ==
    { a \in [seq_id : SeqIds, resolution : Resolutions, refinement : Refinements,
             user_def_list : SeqsOf(Names, 0, MaxList),
             inconsistency_coefficient : Coefficients, prob : Probs,
             save_sup_files : BOOLEAN] :
        NumberOfFaults(a) <= 1 }

\* What fetchpdbChainsList may return: the chains of a sequence cluster, each once.
FetchedLists == { l \in SeqsOf(Names, 0, MaxList) : IsInjective(l) }

\* filterbyResolution (lines 709-734)
filterbyResolution(pdbChainsList, resolutionCutoff) ==
    SelectIn(pdbChainsList,
             { s \in Names : HasResolution(s) /\ ResolutionOf(s) <= resolutionCutoff })

\* Lines 826-832 without the second test (lines 831-832): a query that the
\* resolution filter dropped, or that was not fetched, is not put back.
QueryFirstIfPresent(pdbChainsList) ==
    IF Query \in Range(pdbChainsList)
    THEN << Query >> \o RemoveFirst(pdbChainsList, Query)
    ELSE pdbChainsList

\* Lines 826-832: make sure query structure is not filtered out.
QueryFirst(pdbChainsList) ==
    LET l1 == IF Query \in Range(pdbChainsList)
              THEN << Query >> \o RemoveFirst(pdbChainsList, Query)
              ELSE pdbChainsList
    IN  IF Query \notin Range(l1) THEN << Query >> \o l1 ELSE l1

\* Lines 819-838: the chains that become up.proteins.
BuildChainsList(a, fetchedList) ==
    IF a.user_def_list = << >>
    THEN QueryFirst(filterbyResolution(fetchedList, a.resolution))
    ELSE a.user_def_list

(***************************************************************************)
(* The clusterer.  hcluster.fclusterdata returns one label per point.  The *)
(* code uses a label only as a dictionary key, so labels are taken up to   *)
(* renaming (a new label is one more than the largest label so far) and    *)
(* the order in which the dictionary is iterated is left open.  Two equal  *)
(* ids are the same point (a structure listed twice), at distance 0: they  *)
(* share a label when t >= 0.  With t < 0 no merge of the tree is at or    *)
(* below t and every point is a flat cluster of its own.                   *)
(***************************************************************************)
MaxOf(S) == CHOOSE m \in S : \A x \in S : x <= m

FlatClusterings(ids, t) ==
    { FD \in [ DOMAIN ids -> DOMAIN ids ] :
        /\ \A i \in DOMAIN ids :
              FD[i] <= 1 + MaxOf({0} \cup { FD[j] : j \in 1..(i - 1) })
        /\ t >= 0 => \A i, j \in DOMAIN ids : ids[i] = ids[j] => FD[i] = FD[j]
        /\ t < 0 => \A i, j \in DOMAIN ids : FD[i] = FD[j] => i = j }

\* Lines 508-514: fcDic, label -> the ids with that label, in the order of water_ids.
RECURSIVE IdsWithLabel(_, _, _)
IdsWithLabel(ids, FD, b) ==
    IF ids = << >> THEN << >>
    ELSE (IF Head(FD) = b THEN << Head(ids) >> ELSE << >>)
         \o IdsWithLabel(Tail(ids), Tail(FD), b)

MakeFcDic(ids, FD) == [ b \in Range(FD) |-> IdsWithLabel(ids, FD, b) ]

\* Lines 578-582 with the assignment of line 582 in both branches: the entry
\* of a structure is replaced, not extended.
RECURSIVE AddConservedOverwrite(_, _, _)
AddConservedOverwrite(dic, waterMols, probText) ==
    IF waterMols = << >> THEN dic
    ELSE LET w == Head(waterMols)
             e == << AtomNo(w), probText >>
             d == [ s \in DOMAIN dic \cup {Struct(w)} |->
                      IF s = Struct(w) THEN << e >> ELSE dic[s] ]
         IN  AddConservedOverwrite(d, Tail(waterMols), probText)

\* Lines 578-582: the members of an accepted cluster that holds the query are
\* added to conservedWaterDic, as 'atomNumber_probability'; the text is split
\* again at the '_' in line 593, so an entry is kept as the pair of its parts.
RECURSIVE AddConserved(_, _, _)
AddConserved(dic, waterMols, probText) ==
    IF waterMols = << >> THEN dic
    ELSE LET w == Head(waterMols)
             e == << AtomNo(w), probText >>
             d == IF Struct(w) \in DOMAIN dic
                  THEN [dic EXCEPT ![Struct(w)] = Append(@, e)]
                  ELSE [ s \in DOMAIN dic \cup {Struct(w)} |->
                           IF s = Struct(w) THEN << e >> ELSE dic[s] ]
         IN  AddConserved(d, Tail(waterMols), probText)

\* Lines 589-594: atomNumbersProbDic[atom] = float(prob), for each entry in turn.
RECURSIVE MakeAtomNumbersProbDic(_, _)
MakeAtomNumbersProbDic(dic, entries) ==
    IF entries = << >> THEN dic
    ELSE LET atom == Head(entries)[1]
             prob == FloatOfStr(Head(entries)[2])
         IN  MakeAtomNumbersProbDic(
                 [ a \in DOMAIN dic \cup {atom} |-> IF a = atom THEN prob ELSE dic[a] ],
                 Tail(entries))

(***************************************************************************)
(* State.                                                                  *)
(***************************************************************************)
VARIABLES
    pc,                  \* where the run is
    py,                  \* major version of the Python interpreter (2 or 3)
    args,                \* the arguments of FindConservedWaters
    fetched,             \* what fetchpdbChainsList returns in this run
    tmp_dir,             \* whether the temporary directory exists
    proteins,            \* up.proteins: the structure list
    waterFile,           \* tmp_dir/cwm_<name>_Water.pdb, per structure
    fi,                  \* position of the refinement loop in the list
    water_ids,           \* the merged atom ids
    fcDic,               \* cluster label -> ids
    pending,             \* labels the loop over fcDic has not reached yet
    seen,                \* what the loop computed for each cluster, in its order
    clusterPresence,     \* the presence-matrix file
    conservedWaterDic,   \* structure -> entries (atom number, probability text)
    cwm_count,
    atomNumbersProbDic,  \* atom number -> degree of conservation
    outdirFiles,         \* the files in outdir/<query>
    displayed,           \* displayInPyMOL was called
    clusterCalls,        \* calls of hcluster.fclusterdata
    outcome,             \* the message the run ends with
    requests,            \* the network requests made so far, by what they ask for
    X,                   \* fclusterdata: the observations handed to the clusterer
    Z,                   \* fclusterdata: the linkage tree built so far
    T,                   \* fclusterdata: the flat cluster label of each observation
    pdbChain             \* the string handed to add_protein_from_string

vars == << pc, py, args, fetched, tmp_dir, proteins, waterFile, fi, water_ids,
           fcDic, pending, seen, clusterPresence, conservedWaterDic, cwm_count,
           atomNumbersProbDic, outdirFiles, displayed, clusterCalls, outcome,
           requests, X, Z, T, pdbChain >>

NoFile == [exists |-> FALSE, header |-> << >>, rows |-> << >>]

Init ==
    /\ pc = "start"
    /\ py \in {2, 3}
    /\ args \in Arguments
    /\ fetched \in (IF args.user_def_list = << >> THEN FetchedLists ELSE { << >> })
    /\ tmp_dir = FALSE
    /\ proteins = << >>
    /\ waterFile = << >>
    /\ fi = 0
    /\ water_ids = << >>
    /\ fcDic = << >>
    /\ pending = { }
    /\ seen = << >>
    /\ clusterPresence = NoFile
    /\ conservedWaterDic = << >>
    /\ cwm_count = 0
    /\ atomNumbersProbDic = << >>
    /\ outdirFiles = { }
    /\ displayed = FALSE
    /\ clusterCalls = 0
    /\ outcome = ""
    /\ requests = { }
    /\ X = << >>
    /\ Z = << >>
    /\ T = << >>
    /\ pdbChain = << >>

(***************************************************************************)
(* FindConservedWaters                                                     *)
(***************************************************************************)
\* Lines 741-817: the checks of the arguments; a run that passes them creates
\* the temporary directory and the empty ProteinsList.  The server is asked
\* whether it is reachable (line 742), for the experimental technique of the
\* query (isXray, line 748) and for its chains (chainPresent, line 755) before
\* the other arguments are looked at; the server answers, and the query is an
\* X-ray structure with the chain asked for.
Validate ==
    /\ pc = "start"
    /\ requests' = requests \cup {"www.rcsb.org", "experimentalTechnique", "entityId"}
    /\ IF FirstFailure(args) = ""
       THEN pc' = "validated" /\ tmp_dir' = TRUE /\ UNCHANGED outcome
       ELSE pc' = "rejected" /\ outcome' = FirstFailure(args) /\ UNCHANGED tmp_dir
    /\ UNCHANGED << X, Z, T, pdbChain, py, args, fetched, proteins, waterFile, fi, water_ids, fcDic,
                    pending, seen, clusterPresence, conservedWaterDic, cwm_count,
                    atomNumbersProbDic, outdirFiles, displayed, clusterCalls >>

\* Lines 688-734: what fetchpdbChainsList and filterbyResolution ask the server:
\* the sequence cluster, then the technique and the resolution of its entries.
RequestsOfList(a, fetchedList) ==
    IF a.user_def_list # << >> THEN { }
    ELSE IF fetchedList = << >> THEN {"sequenceCluster"}
    ELSE {"sequenceCluster", "experimentalTechnique", "resolution"}

\* Lines 819-838: the chains list and up.add_protein_from_string for each chain.
BuildList ==
    /\ pc = "validated"
    /\ proteins' = BuildChainsList(args, fetched)
    /\ requests' = requests \cup RequestsOfList(args, fetched)
    /\ pc' = "listed"
    /\ UNCHANGED << X, Z, T, pdbChain, py, args, fetched, tmp_dir, waterFile, fi, water_ids, fcDic,
                    pending, seen, clusterPresence, conservedWaterDic, cwm_count,
                    atomNumbersProbDic, outdirFiles, displayed, clusterCalls,
                    outcome >>

\* Lines 840-845: every structure is retrieved.
Download ==
    /\ pc = "listed"
    /\ Len(proteins) > 1
    /\ pc' = "downloaded"
    /\ requests' = requests \cup {"files"}
    /\ UNCHANGED << X, Z, T, pdbChain, py, args, fetched, tmp_dir, proteins, waterFile, fi, water_ids,
                    fcDic, pending, seen, clusterPresence, conservedWaterDic,
                    cwm_count, atomNumbersProbDic, outdirFiles, displayed,
                    clusterCalls, outcome >>

\* Line 844: urllib.urlretrieve raises; nothing catches it.
DownloadFails ==
    /\ pc = "listed"
    /\ Len(proteins) > 1
    /\ pc' = "crashed"
    /\ outcome' = "exception"
    /\ requests' = requests \cup {"files"}
    /\ UNCHANGED << X, Z, T, pdbChain, py, args, fetched, tmp_dir, proteins, waterFile, fi, water_ids,
                    fcDic, pending, seen, clusterPresence, conservedWaterDic,
                    cwm_count, atomNumbersProbDic, outdirFiles, displayed,
                    clusterCalls >>

\* Lines 847-848.
TooFewChains ==
    /\ pc = "listed"
    /\ Len(proteins) <= 1
    /\ outcome' = "only one PDB structure"
    /\ pc' = "cleanup"
    /\ UNCHANGED << X, Z, T, pdbChain, requests, py, args, fetched, tmp_dir, proteins, waterFile, fi, water_ids,
                    fcDic, pending, seen, clusterPresence, conservedWaterDic,
                    cwm_count, atomNumbersProbDic, outdirFiles, displayed,
                    clusterCalls >>

\* Line 849: shutil.rmtree(tmp_dir)
Cleanup ==
    /\ pc = "cleanup"
    /\ tmp_dir' = FALSE
    /\ pc' = "done"
    /\ UNCHANGED << X, Z, T, pdbChain, requests, py, args, fetched, proteins, waterFile, fi, water_ids, fcDic,
                    pending, seen, clusterPresence, conservedWaterDic, cwm_count,
                    atomNumbersProbDic, outdirFiles, displayed, clusterCalls,
                    outcome >>

(***************************************************************************)
(* makePDBwithConservedWaters                                              *)
(***************************************************************************)
\* Lines 420-446: PyMOL loads every chain, superimposes it on the first one and
\* saves, for each, the chain (cwm_<name>.pdb) and its waters (cwm_<name>_Water.pdb).
Superimpose ==
    /\ pc = "downloaded"
    /\ waterFile' = [ s \in Range(proteins) |-> SavedWaterFile(s) ]
    /\ fi' = Len(proteins)
    /\ pc' = "filter"
    /\ UNCHANGED << X, Z, T, pdbChain, requests, py, args, fetched, tmp_dir, proteins, water_ids, fcDic, pending,
                    seen, clusterPresence, conservedWaterDic, cwm_count,
                    atomNumbersProbDic, outdirFiles, displayed, clusterCalls,
                    outcome >>

\* The pass without the test of lines 455 and 462: the query is filtered like
\* any other structure.
FilterStepQueryToo ==
    /\ pc = "filter"
    /\ args.refinement # "No refinement"
    /\ fi >= 1
    /\ LET protein == proteins[fi]
           r == OkRefinement(args.refinement, waterFile[protein])
       IN  /\ waterFile' = [waterFile EXCEPT ![protein] = r.file]
           /\ proteins' = IF r.considerPDB THEN proteins
                          ELSE RemoveAt(proteins, fi)
    /\ fi' = fi - 1
    /\ UNCHANGED << X, Z, T, pdbChain, requests, pc, py, args, fetched, tmp_dir, water_ids, fcDic, pending, seen,
                    clusterPresence, conservedWaterDic, cwm_count,
                    atomNumbersProbDic, outdirFiles, displayed, clusterCalls,
                    outcome >>

\* Lines 454-457 and 461-464: one pass of "for protein in reversed(proteins)".
\* The query is skipped; another structure is filtered, and removed from the
\* list when the filter says so.
FilterStep ==
    /\ pc = "filter"
    /\ args.refinement # "No refinement"
    /\ fi >= 1
    /\ LET protein == proteins[fi]
           r == OkRefinement(args.refinement, waterFile[protein])
       IN  IF protein # Query
           THEN /\ waterFile' = [waterFile EXCEPT ![protein] = r.file]
                /\ proteins' = IF r.considerPDB THEN proteins
                               ELSE RemoveAt(proteins, fi)
           ELSE UNCHANGED << waterFile, proteins >>
    /\ fi' = fi - 1
    /\ UNCHANGED << X, Z, T, pdbChain, requests, pc, py, args, fetched, tmp_dir, water_ids, fcDic, pending, seen,
                    clusterPresence, conservedWaterDic, cwm_count,
                    atomNumbersProbDic, outdirFiles, displayed, clusterCalls,
                    outcome >>

\* Lines 472-478: the query's output directory; the superimposed chains are
\* copied into it when save_sup_files is set.
FilterDone ==
    /\ pc = "filter"
    /\ args.refinement = "No refinement" \/ fi = 0
    /\ outdirFiles' =
          IF args.save_sup_files
          THEN outdirFiles \cup { [kind |-> "superimposed chain", pdb |-> s] :
                                    s \in DOMAIN waterFile }
          ELSE outdirFiles
    /\ pc' = "collect"
    /\ UNCHANGED << X, Z, T, pdbChain, requests, py, args, fetched, tmp_dir, proteins, waterFile, fi, water_ids,
                    fcDic, pending, seen, clusterPresence, conservedWaterDic,
                    cwm_count, atomNumbersProbDic, displayed, clusterCalls,
                    outcome >>

\* The checks without "if len(water_coordinates) != 1" (line 483).
CollectOutcomeNoSingle(nProteins, nWaters) ==
    IF nProteins > 1
    THEN IF nWaters > 0
         THEN IF nWaters < WaterCeiling THEN "" ELSE "too many waters"
         ELSE "no water molecules"
    ELSE "only one PDB structure"

\* Lines 481-497 and 620-627: what the run does with the structure list and the
\* merged ids: "" when it goes on to the clustering, the message it ends with
\* otherwise.
CollectOutcome(nProteins, nWaters) ==
    IF nProteins > 1
    THEN IF nWaters > 0
         THEN IF nWaters # 1
              THEN IF nWaters < WaterCeiling THEN ""
                   ELSE "too many waters"
              ELSE "only one water molecule"
         ELSE "no water molecules"
    ELSE "only one PDB structure"

\* Lines 480-497 and 620-627: the water ids of the structures of the list are
\* merged, and the run goes on to the clustering only with at least 2 structures
\* and with 2 or more, and fewer than the ceiling, water atoms.
Collect ==
    /\ pc = "collect"
    /\ LET ids == IF Len(proteins) > 1 THEN CollectIds(proteins, waterFile)
                  ELSE << >>
           msg == CollectOutcome(Len(proteins), Len(ids))
       IN  /\ water_ids' = ids
           /\ outcome' = msg
           /\ pc' = IF msg = "" THEN "cluster" ELSE "cleanup"
    /\ UNCHANGED << X, Z, T, pdbChain, requests, py, args, fetched, tmp_dir, proteins, waterFile, fi, fcDic,
                    pending, seen, clusterPresence, conservedWaterDic, cwm_count,
                    atomNumbersProbDic, outdirFiles, displayed, clusterCalls >>

\* Lines 497-526: the clustering, fcDic, and the presence-matrix file with its
\* header (the structure names in list order).
Cluster ==
    /\ pc = "cluster"
    /\ \E FD \in FlatClusterings(water_ids, args.inconsistency_coefficient) :
          /\ fcDic' = MakeFcDic(water_ids, FD)
          /\ pending' = Range(FD)
    /\ clusterCalls' = clusterCalls + 1
    /\ clusterPresence' = [exists |-> TRUE, header |-> proteins, rows |-> << >>]
    /\ outdirFiles' = outdirFiles \cup { [kind |-> "clusterPresence", pdb |-> Query] }
    /\ pc' = "loop"
    /\ UNCHANGED << X, Z, T, pdbChain, requests, py, args, fetched, tmp_dir, proteins, waterFile, fi, water_ids,
                    seen, conservedWaterDic, cwm_count, atomNumbersProbDic,
                    displayed, outcome >>

\* The loop body with the score taken from waterMolsNumber of line 531 (the
\* number of members the cluster came with) in place of uniquePDBslen.
ClusterStepCountsAtoms ==
    /\ pc = "loop"
    /\ \E clusterNumber \in pending :
          LET assigned == fcDic[clusterNumber]
              resolved == ResolveCluster(assigned)
              waterMols == OrderByList(resolved, ProteinsNumbers(proteins),
                                       Len(proteins) - 1)
              uniquePDBs == StructsOf(waterMols)
              uniquePDBslen == Len(assigned)
              n == Len(proteins)
              ok == Accepted(uniquePDBslen, n, args.prob)
              probText == StrOfFloat(py, FloatDiv(uniquePDBslen, n))
              inDic == ok /\ Query \in uniquePDBs
          IN  /\ pending' = pending \ {clusterNumber}
              /\ clusterPresence' =
                    IF ok
                    THEN [clusterPresence EXCEPT !.rows =
                            Append(@, PresenceRow(py, waterMols, proteins,
                                                  uniquePDBslen, n))]
                    ELSE clusterPresence
              /\ cwm_count' = IF inDic THEN cwm_count + 1 ELSE cwm_count
              /\ conservedWaterDic' =
                    IF inDic THEN AddConserved(conservedWaterDic, waterMols, probText)
                    ELSE conservedWaterDic
              /\ seen' = Append(seen, [clusterNumber |-> clusterNumber,
                                       assigned |-> assigned,
                                       resolved |-> resolved,
                                       waterMols |-> waterMols,
                                       uniquePDBslen |-> uniquePDBslen,
                                       total |-> n,
                                       row |-> ok,
                                       conserved |-> inDic])
    /\ UNCHANGED << X, Z, T, pdbChain, requests, pc, py, args, fetched, tmp_dir, proteins, waterFile, fi,
                    water_ids, fcDic, atomNumbersProbDic, outdirFiles, displayed,
                    clusterCalls, outcome >>

\* Lines 529-582: the body of "for clusterNumber, waterMols in fcDic.items()".
ClusterStep ==
    /\ pc = "loop"
    /\ \E clusterNumber \in pending :
          LET assigned == fcDic[clusterNumber]
              resolved == ResolveCluster(assigned)
              waterMols == OrderByList(resolved, ProteinsNumbers(proteins),
                                       Len(proteins) - 1)
              uniquePDBs == StructsOf(waterMols)
              uniquePDBslen == Cardinality(uniquePDBs)
              n == Len(proteins)
              ok == Accepted(uniquePDBslen, n, args.prob)
              probText == StrOfFloat(py, FloatDiv(uniquePDBslen, n))
              inDic == ok /\ Query \in uniquePDBs
          IN  /\ pending' = pending \ {clusterNumber}
              /\ clusterPresence' =
                    IF ok
                    THEN [clusterPresence EXCEPT !.rows =
                            Append(@, PresenceRow(py, waterMols, proteins,
                                                  uniquePDBslen, n))]
                    ELSE clusterPresence
              /\ cwm_count' = IF inDic THEN cwm_count + 1 ELSE cwm_count
              /\ conservedWaterDic' =
                    IF inDic THEN AddConserved(conservedWaterDic, waterMols, probText)
                    ELSE conservedWaterDic
              /\ seen' = Append(seen, [clusterNumber |-> clusterNumber,
                                       assigned |-> assigned,
                                       resolved |-> resolved,
                                       waterMols |-> waterMols,
                                       uniquePDBslen |-> uniquePDBslen,
                                       total |-> n,
                                       row |-> ok,
                                       conserved |-> inDic])
    /\ UNCHANGED << X, Z, T, pdbChain, requests, pc, py, args, fetched, tmp_dir, proteins, waterFile, fi,
                    water_ids, fcDic, atomNumbersProbDic, outdirFiles, displayed,
                    clusterCalls, outcome >>

\* The extraction without the test of line 587: conservedWaterDic[selectedPDBChain]
\* raises KeyError when the query has no entry.
ExtractUnguarded ==
    /\ pc = "loop"
    /\ pending = { }
    /\ IF Query \in DOMAIN conservedWaterDic
       THEN /\ atomNumbersProbDic' =
                  MakeAtomNumbersProbDic(<< >>, conservedWaterDic[Query])
            /\ outdirFiles' = outdirFiles \cup
                  { [kind |-> "withConservedWaters", pdb |-> Query],
                    [kind |-> "superimposed chain", pdb |-> Query] }
            /\ displayed' = TRUE
            /\ outcome' = "conserved waters"
            /\ pc' = "cleanup"
       ELSE /\ outcome' = "exception"
            /\ pc' = "crashed"
            /\ UNCHANGED << atomNumbersProbDic, outdirFiles, displayed >>
    /\ UNCHANGED << X, Z, T, pdbChain, requests, py, args, fetched, tmp_dir, proteins, waterFile, fi, water_ids,
                    fcDic, pending, seen, clusterPresence, conservedWaterDic,
                    cwm_count, clusterCalls >>

\* The extraction indented into the loop of line 529: it runs once a cluster
\* has been handled, whatever clusters are left.
ExtractInsideLoop ==
    /\ pc = "loop"
    /\ seen # << >>
    /\ IF Query \in DOMAIN conservedWaterDic
       THEN /\ atomNumbersProbDic' =
                  MakeAtomNumbersProbDic(<< >>, conservedWaterDic[Query])
            /\ outdirFiles' = outdirFiles \cup
                  { [kind |-> "withConservedWaters", pdb |-> Query],
                    [kind |-> "superimposed chain", pdb |-> Query] }
            /\ displayed' = TRUE
            /\ outcome' = "conserved waters"
       ELSE /\ outcome' = "no conserved waters"
            /\ UNCHANGED << atomNumbersProbDic, outdirFiles, displayed >>
    /\ pc' = "cleanup"
    /\ UNCHANGED << X, Z, T, pdbChain, requests, py, args, fetched, tmp_dir, proteins, waterFile, fi, water_ids,
                    fcDic, pending, seen, clusterPresence, conservedWaterDic,
                    cwm_count, clusterCalls >>

\* Lines 583-619: after the loop, the query's entries become atomNumbersProbDic,
\* the structure with its conserved waters is saved and displayed; without an
\* entry for the query the run ends with "no conserved waters".
Extract ==
    /\ pc = "loop"
    /\ pending = { }
    /\ IF Query \in DOMAIN conservedWaterDic
       THEN /\ atomNumbersProbDic' =
                  MakeAtomNumbersProbDic(<< >>, conservedWaterDic[Query])
            /\ outdirFiles' = outdirFiles \cup
                  { [kind |-> "withConservedWaters", pdb |-> Query],
                    [kind |-> "superimposed chain", pdb |-> Query] }
            /\ displayed' = TRUE
            /\ outcome' = "conserved waters"
       ELSE /\ outcome' = "no conserved waters"
            /\ UNCHANGED << atomNumbersProbDic, outdirFiles, displayed >>
    /\ pc' = "cleanup"
    /\ UNCHANGED << X, Z, T, pdbChain, requests, py, args, fetched, tmp_dir, proteins, waterFile, fi, water_ids,
                    fcDic, pending, seen, clusterPresence, conservedWaterDic,
                    cwm_count, clusterCalls >>

Next ==
    \/ Validate
    \/ BuildList
    \/ Download
    \/ DownloadFails
    \/ TooFewChains
    \/ Superimpose
    \/ FilterStep
    \/ FilterDone
    \/ Collect
    \/ Cluster
    \/ ClusterStep
    \/ Extract
    \/ Cleanup

Spec == Init /\ [][Next]_vars

(***************************************************************************)
(* hcluster.fclusterdata (lines 501-507), followed step by step on points  *)
(* that lie on one axis: the pairwise Euclidean distances, the linkage     *)
(* tree Z, and the flat clusters T cut from it with criterion='distance'.  *)
(* Coordinates and the threshold t are in tenths of an Angstrom.           *)
(***************************************************************************)
MaxPoints == 3
Positions == {0, 10, 25}
Methods == {"single", "complete", "average"}
Thresholds == {-5, 0, 10, 20}

\* The variables of a run of FindConservedWaters, when no run is going on.
NoRun ==
    /\ fetched = << >>
    /\ tmp_dir = FALSE
    /\ waterFile = << >>
    /\ fi = 0
    /\ water_ids = << >>
    /\ fcDic = << >>
    /\ pending = { }
    /\ seen = << >>
    /\ clusterPresence = NoFile
    /\ conservedWaterDic = << >>
    /\ cwm_count = 0
    /\ atomNumbersProbDic = << >>
    /\ outdirFiles = { }
    /\ displayed = FALSE
    /\ clusterCalls = 0
    /\ requests = { }

Abs(x) == IF x < 0 THEN -x ELSE x

\* metric='euclidean', for two points of one axis.
Euclidean(u, v) == Abs(u - v)

MinOf(S) == CHOOSE m \in S : \A x \in S : m <= x

RECURSIVE SumOfDists(_, _)
SumOfDists(x, pairs) ==
    IF pairs = { } THEN 0
    ELSE LET p == CHOOSE q \in pairs : TRUE
         IN  Euclidean(x[p[1]], x[p[2]]) + SumOfDists(x, pairs \ {p})

\* The distance of two clusters under a linkage method, as an exact fraction:
\* the smallest (single), the largest (complete) or the mean (average) of the
\* distances between a point of the one and a point of the other.
LinkageDistance(method, x, A, B) ==
    LET ds == { Euclidean(x[i], x[j]) : i \in A, j \in B }
    IN  CASE method = "single"   -> << MinOf(ds), 1 >>
          [] method = "complete" -> << MaxOf(ds), 1 >>
          [] method = "average"  ->
                << SumOfDists(x, A \X B), Cardinality(A) * Cardinality(B) >>

\* The clusters that exist after the merges of z, among n observations.
RECURSIVE ClustersAfter(_, _)
ClustersAfter(n, z) ==
    IF z = << >> THEN { {i} : i \in 1..n }
    ELSE LET m == z[Len(z)]
             c == ClustersAfter(n, SubSeq(z, 1, Len(z) - 1))
         IN  (c \ {m.left, m.right}) \cup {m.left \cup m.right}

\* The observations below the node that merge number m of z made.
LeavesOf(z, m) == z[m].left \cup z[m].right

\* fcluster with criterion='distance': two observations are in one flat
\* cluster when a node holds both and no merge at or below it is higher
\* than t.
SameFlatCluster(z, t, i, j) ==
    \E m \in DOMAIN z :
        /\ {i, j} \subseteq LeavesOf(z, m)
        /\ \A k \in 1..m :
              LeavesOf(z, k) \subseteq LeavesOf(z, m)
                  => ~FracLess(<< t, 1 >>, z[k].dist)

\* The label vectors fcluster may return: one label per flat cluster, the
\* labels being 1..k in an order the caller does not rely on.
FlatLabels(n, z, t) ==
    { F \in [ 1..n -> 1..n ] :
        /\ \A i, j \in 1..n :
              (F[i] = F[j]) <=> (i = j \/ SameFlatCluster(z, t, i, j))
        /\ \A b \in 1..n : b \in Range(F) => \A a \in 1..b : a \in Range(F) }

InitLinkage ==
    /\ pc = "linkage"
    /\ py \in {2, 3}
    /\ args \in [clustering_method : Methods, inconsistency_coefficient : Thresholds]
    /\ X \in SeqsOf(Positions, 2, MaxPoints)
    /\ Z = << >>
    /\ T = << >>
    /\ pdbChain = << >>
    /\ proteins = << >>
    /\ outcome = ""
    /\ NoRun

\* One merge of the agglomeration: two clusters at the least linkage distance
\* become one.  Which pair is taken among equally distant ones is left open.
LinkageStep ==
    /\ pc = "linkage"
    /\ LET cs == ClustersAfter(Len(X), Z)
           d(A, B) == LinkageDistance(args.clustering_method, X, A, B)
       IN  /\ Cardinality(cs) > 1
           /\ \E A, B \in cs :
                 /\ MinOf(A) < MinOf(B)
                 /\ \A C, D \in cs : C # D => ~FracLess(d(C, D), d(A, B))
                 /\ Z' = Append(Z, [left |-> A, right |-> B, dist |-> d(A, B)])
    /\ UNCHANGED << X, T, pdbChain, requests, pc, py, args, fetched, tmp_dir,
                    proteins, waterFile, fi, water_ids, fcDic, pending, seen,
                    clusterPresence, conservedWaterDic, cwm_count,
                    atomNumbersProbDic, outdirFiles, displayed, clusterCalls,
                    outcome >>

\* The tree is complete: the flat clusters are cut from it.
Fcluster ==
    /\ pc = "linkage"
    /\ Cardinality(ClustersAfter(Len(X), Z)) = 1
    /\ T' \in FlatLabels(Len(X), Z, args.inconsistency_coefficient)
    /\ pc' = "fcluster"
    /\ UNCHANGED << X, Z, pdbChain, requests, py, args, fetched, tmp_dir,
                    proteins, waterFile, fi, water_ids, fcDic, pending, seen,
                    clusterPresence, conservedWaterDic, cwm_count,
                    atomNumbersProbDic, outdirFiles, displayed, clusterCalls,
                    outcome >>

NextLinkage ==
    \/ LinkageStep
    \/ Fcluster

SpecLinkage == InitLinkage /\ [][NextLinkage]_vars

(***************************************************************************)
(* pycwms.py: makePDBwithConservedWaters (lines 381-529), from the saved   *)
(* water files on.  pycwms has no user-defined list: the structure list is *)
(* the fetched sequence cluster with the query first.  okMobility and      *)
(* okBfactor are those of pywater.py; here they are applied to the query   *)
(* as well.  pycwms runs under Python 2 (has_key, line 458).               *)
(***************************************************************************)
PycwmsCoefficients == {-5, 20}
PycwmsProbs == { << 1, 2 >>, << 2, 3 >> }

PycwmsArguments ==
    [refinement : Refinements, inconsistency_coefficient : PycwmsCoefficients,
     prob : PycwmsProbs]

\* Python values of two types: a str, and an instance of Protein standing in
\* the list under the name str() gives it.
PyStr(text) == [type |-> "str", value |-> text]
PyProtein(name) == [type |-> "Protein", value |-> name]

\* x == y: Protein defines no __eq__, so a str and a Protein are never equal.
PyEq(x, y) == x.type = y.type /\ x.value = y.value

\* x in list
PyIn(x, list) == \E i \in DOMAIN list : PyEq(x, list[i])

\* Line 424: ':'.join(str(ProteinsList.selectedPDBChain).upper().split('_'))
queryStruct == PyStr("1QQQ:A")

\* Lines 423-426: make sure query structure is not filtered out.  The Protein
\* that add_protein_from_string makes of '1QQQ:A' has the name of the query.
AddQueryIfMissing(ps) ==
    IF ~PyIn(queryStruct, [ i \in DOMAIN ps |-> PyProtein(ps[i]) ])
    THEN Append(ps, Query)
    ELSE ps

\* Line 478: probability > ProteinsList.probability
AboveCutoff(k, n, prob) == k * prob[2] > prob[1] * n

InitPycwms ==
    /\ pc = "refine"
    /\ py = 2
    /\ args \in PycwmsArguments
    /\ proteins \in { l \in FetchedLists : Len(l) > 1 /\ l[1] = Query }
    /\ waterFile = [ s \in Range(proteins) |-> SavedWaterFile(s) ]
    /\ fi = Len(proteins)
    /\ fetched = << >>
    /\ tmp_dir = TRUE
    /\ water_ids = << >>
    /\ fcDic = << >>
    /\ pending = { }
    /\ seen = << >>
    /\ clusterPresence = NoFile
    /\ conservedWaterDic = << >>
    /\ cwm_count = 0
    /\ atomNumbersProbDic = << >>
    /\ outdirFiles = { }
    /\ displayed = FALSE
    /\ clusterCalls = 0
    /\ outcome = ""
    /\ requests = {"www.rcsb.org", "experimentalTechnique", "entityId",
                   "sequenceCluster", "resolution", "files"}
    /\ X = << >>
    /\ Z = << >>
    /\ T = << >>
    /\ pdbChain = << >>

\* Lines 411-421: one pass of "for protein in reversed(ProteinsList.proteins)";
\* every structure is filtered, the query too.
PycwmsFilterStep ==
    /\ pc = "refine"
    /\ args.refinement # "No refinement"
    /\ fi >= 1
    /\ LET protein == proteins[fi]
           r == OkRefinement(args.refinement, waterFile[protein])
       IN  /\ waterFile' = [waterFile EXCEPT ![protein] = r.file]
           /\ proteins' = IF r.considerPDB THEN proteins ELSE RemoveAt(proteins, fi)
    /\ fi' = fi - 1
    /\ UNCHANGED << X, Z, T, pdbChain, requests, pc, py, args, fetched, tmp_dir,
                    water_ids, fcDic, pending, seen, clusterPresence,
                    conservedWaterDic, cwm_count, atomNumbersProbDic,
                    outdirFiles, displayed, clusterCalls, outcome >>

\* Lines 423-426, after the filtering.
PycwmsFilterDone ==
    /\ pc = "refine"
    /\ args.refinement = "No refinement" \/ fi = 0
    /\ proteins' = AddQueryIfMissing(proteins)
    /\ pc' = "gather"
    /\ UNCHANGED << X, Z, T, pdbChain, requests, py, args, fetched, tmp_dir,
                    waterFile, fi, water_ids, fcDic, pending, seen,
                    clusterPresence, conservedWaterDic, cwm_count,
                    atomNumbersProbDic, outdirFiles, displayed, clusterCalls,
                    outcome >>

\* Lines 435-449 and 521-529.
PycwmsCollect ==
    /\ pc = "gather"
    /\ LET ids == IF Len(proteins) > 1 THEN CollectIds(proteins, waterFile)
                  ELSE << >>
           msg == CollectOutcome(Len(proteins), Len(ids))
       IN  /\ water_ids' = ids
           /\ outcome' = msg
           /\ pc' = IF msg = "" THEN "group" ELSE "returned"
    /\ UNCHANGED << X, Z, T, pdbChain, requests, py, args, fetched, tmp_dir,
                    proteins, waterFile, fi, fcDic, pending, seen,
                    clusterPresence, conservedWaterDic, cwm_count,
                    atomNumbersProbDic, outdirFiles, displayed, clusterCalls >>

\* Lines 450-463: the clustering (method='average') and fcDic.
PycwmsCluster ==
    /\ pc = "group"
    /\ \E FD \in FlatClusterings(water_ids, args.inconsistency_coefficient) :
          /\ fcDic' = MakeFcDic(water_ids, FD)
          /\ pending' = Range(FD)
    /\ clusterCalls' = clusterCalls + 1
    /\ pc' = "scan"
    /\ UNCHANGED << X, Z, T, pdbChain, requests, py, args, fetched, tmp_dir,
                    proteins, waterFile, fi, water_ids, seen, clusterPresence,
                    conservedWaterDic, cwm_count, atomNumbersProbDic,
                    outdirFiles, displayed, outcome >>

\* Lines 465-484: the body of "for clusterNumber, waterMols in fcDic.items()".
\* A cluster is looked at only when it holds the query and has as many
\* members as structures; nothing is removed from a cluster.
PycwmsClusterStep ==
    /\ pc = "scan"
    /\ \E clusterNumber \in pending :
          LET waterMols == fcDic[clusterNumber]
              waterMolsNumber == Len(waterMols)
              uniquePDBs == StructsOf(waterMols)
              uniquePDBslen == Cardinality(uniquePDBs)
              n == Len(proteins)
              inDic == /\ Query \in uniquePDBs
                       /\ uniquePDBslen = waterMolsNumber
                       /\ AboveCutoff(uniquePDBslen, n, args.prob)
              probText == StrOfFloat(py, FloatDiv(uniquePDBslen, n))
          IN  /\ pending' = pending \ {clusterNumber}
              /\ cwm_count' = IF inDic THEN cwm_count + 1 ELSE cwm_count
              /\ conservedWaterDic' =
                    IF inDic THEN AddConserved(conservedWaterDic, waterMols, probText)
                    ELSE conservedWaterDic
              /\ seen' = Append(seen, [clusterNumber |-> clusterNumber,
                                       assigned |-> waterMols,
                                       resolved |-> waterMols,
                                       waterMols |-> waterMols,
                                       uniquePDBslen |-> uniquePDBslen,
                                       total |-> n,
                                       row |-> FALSE,
                                       conserved |-> inDic])
    /\ UNCHANGED << X, Z, T, pdbChain, requests, pc, py, args, fetched, tmp_dir,
                    proteins, waterFile, fi, water_ids, fcDic, clusterPresence,
                    atomNumbersProbDic, outdirFiles, displayed, clusterCalls,
                    outcome >>

\* Lines 486-519: the query's entries become atomNumbersProbDic, and the
\* structure with its conserved waters is saved and displayed.
PycwmsExtract ==
    /\ pc = "scan"
    /\ pending = { }
    /\ IF Query \in DOMAIN conservedWaterDic
       THEN /\ atomNumbersProbDic' =
                  MakeAtomNumbersProbDic(<< >>, conservedWaterDic[Query])
            /\ outdirFiles' = outdirFiles \cup
                  { [kind |-> "withConservedWaters", pdb |-> Query],
                    [kind |-> "superimposed chain", pdb |-> Query] }
            /\ displayed' = TRUE
            /\ outcome' = "conserved waters"
       ELSE /\ outcome' = "no conserved waters"
            /\ UNCHANGED << atomNumbersProbDic, outdirFiles, displayed >>
    /\ pc' = "returned"
    /\ UNCHANGED << X, Z, T, pdbChain, requests, py, args, fetched, tmp_dir,
                    proteins, waterFile, fi, water_ids, fcDic, pending, seen,
                    clusterPresence, conservedWaterDic, cwm_count, clusterCalls >>

NextPycwms ==
    \/ PycwmsFilterStep
    \/ PycwmsFilterDone
    \/ PycwmsCollect
    \/ PycwmsCluster
    \/ PycwmsClusterStep
    \/ PycwmsExtract

SpecPycwms == InitPycwms /\ [][NextPycwms]_vars

(***************************************************************************)
(* The refinement filter on water files of up to MaxWaters atoms of full   *)
(* occupancy: the list is the query and one other structure, and the run   *)
(* is at the filter (line 448) with the water file of that structure.      *)
(***************************************************************************)
MaxWaters == 3
BFactors == {100, 135, 156}

\* A water file with the B-factors bs, its atoms numbered from 1.
WaterFileOf(bs) == [ i \in DOMAIN bs |-> HetAtm(i, 100, bs[i]) ]

FilterArguments ==
    { a \in Arguments :
        /\ a.seq_id = "95"
        /\ a.resolution = 18
        /\ a.user_def_list = << >>
        /\ a.inconsistency_coefficient = 24
        /\ a.prob = << 1, 2 >>
        /\ a.refinement # "No refinement" }

InitFilter ==
    /\ pc = "filter"
    /\ py \in {2, 3}
    /\ args \in FilterArguments
    /\ fetched = << Query, "2aaa_A" >>
    /\ tmp_dir = TRUE
    /\ proteins = << Query, "2aaa_A" >>
    /\ \E bs \in SeqsOf(BFactors, 1, MaxWaters) :
          waterFile = [ s \in {Query, "2aaa_A"} |->
                          IF s = Query THEN SavedWaterFile(s) ELSE WaterFileOf(bs) ]
    /\ fi = 2
    /\ water_ids = << >>
    /\ fcDic = << >>
    /\ pending = { }
    /\ seen = << >>
    /\ clusterPresence = NoFile
    /\ conservedWaterDic = << >>
    /\ cwm_count = 0
    /\ atomNumbersProbDic = << >>
    /\ outdirFiles = { }
    /\ displayed = FALSE
    /\ clusterCalls = 0
    /\ outcome = ""
    /\ requests = {"www.rcsb.org", "experimentalTechnique", "entityId",
                   "sequenceCluster", "resolution", "files"}
    /\ X = << >>
    /\ Z = << >>
    /\ T = << >>
    /\ pdbChain = << >>

NextFilter ==
    \/ FilterStep
    \/ FilterDone

SpecFilter == InitFilter /\ [][NextFilter]_vars

(***************************************************************************)
(* ProteinsList.add_protein_from_string (lines 376-389) and Protein        *)
(* (lines 336-344) on strings of up to MaxChars characters.  A string is   *)
(* the sequence of its characters.                                         *)
(***************************************************************************)
MaxChars == 6
Chars == {"1", "a", "B", ":", " "}

\* str.lower and str.upper, character by character.
LowerChar(c) == IF c = "B" THEN "b" ELSE c
UpperChar(c) == IF c = "a" THEN "A" ELSE c
Lower(text) == [ i \in DOMAIN text |-> LowerChar(text[i]) ]
Upper(text) == [ i \in DOMAIN text |-> UpperChar(text[i]) ]

\* s.strip()
RECURSIVE LStrip(_)
LStrip(text) ==
    IF text # << >> /\ Head(text) = " " THEN LStrip(Tail(text)) ELSE text

RECURSIVE RStrip(_)
RStrip(text) ==
    IF text # << >> /\ text[Len(text)] = " "
    THEN RStrip(SubSeq(text, 1, Len(text) - 1))
    ELSE text

Strip(text) == RStrip(LStrip(text))

\* s.find(c): the index of the first c, counted from 0, or -1.
Find(text, c) ==
    IF \E i \in DOMAIN text : text[i] = c
    THEN (CHOOSE i \in DOMAIN text :
              text[i] = c /\ \A j \in 1..(i - 1) : text[j] # c) - 1
    ELSE -1

\* s.split(c)
RECURSIVE Split(_, _)
Split(text, c) ==
    LET k == Find(text, c)
    IN  IF k = -1 THEN << text >>
        ELSE << SubSeq(text, 1, k) >> \o Split(SubSeq(text, k + 2, Len(text)), c)

\* The value False.
PyFalse == [type |-> "bool", value |-> FALSE]

\* Protein.__init__(pdb_id, chain): chain.upper() raises AttributeError when
\* chain is not a str.
NewProtein(pdb_id, chain) ==
    IF chain.type # "str"
    THEN [raised |-> "AttributeError"]
    ELSE [raised |-> "",
          protein |-> [pdb_id |-> Lower(pdb_id), chain |-> Upper(chain.value)]]

\* add_protein_from_string: the exception raised ("" for none) and the list
\* it leaves.
add_protein_from_string(list, s) ==
    LET stripped == Strip(s)
        parts == Split(stripped, ":")
        colon == Find(stripped, ":") > -1
        pdb_id == IF colon THEN parts[1] ELSE stripped
        chain == IF colon THEN PyStr(parts[2]) ELSE PyFalse
    IN  IF colon /\ Len(parts) # 2
        THEN [raised |-> "ValueError", proteins |-> list]
        ELSE IF Len(pdb_id) # 4
        THEN [raised |-> "AssertionError", proteins |-> list]
        ELSE LET p == NewProtein(pdb_id, chain)
             IN  IF p.raised # ""
                 THEN [raised |-> p.raised, proteins |-> list]
                 ELSE [raised |-> "", proteins |-> Append(list, p.protein)]

\* The list a call starts with: one protein, 1aaa chain B.
ListBefore == << [pdb_id |-> << "1", "a", "a", "a" >>, chain |-> << "B" >>] >>

InitAddProtein ==
    /\ pc = "add_protein_from_string"
    /\ py \in {2, 3}
    /\ args = << >>
    /\ pdbChain \in SeqsOf(Chars, 0, MaxChars)
    /\ proteins = ListBefore
    /\ outcome = ""
    /\ X = << >>
    /\ Z = << >>
    /\ T = << >>
    /\ NoRun

AddProteinFromString ==
    /\ pc = "add_protein_from_string"
    /\ LET r == add_protein_from_string(proteins, pdbChain)
       IN  /\ proteins' = r.proteins
           /\ outcome' = r.raised
           /\ pc' = IF r.raised = "" THEN "returned" ELSE "raised"
    /\ UNCHANGED << X, Z, T, pdbChain, requests, py, args, fetched, tmp_dir,
                    waterFile, fi, water_ids, fcDic, pending, seen,
                    clusterPresence, conservedWaterDic, cwm_count,
                    atomNumbersProbDic, outdirFiles, displayed, clusterCalls >>

NextAddProtein ==
    \/ AddProteinFromString

SpecAddProtein == InitAddProtein /\ [][NextAddProtein]_vars

(***************************************************************************)
(* Properties.                                                             *)
(***************************************************************************)
\* The atoms of structure s in a list of ids, in the order of the list.
AtomsOf(ids, s) == SelectIn(ids, { a \in Range(ids) : Struct(a) = s })

\* The score of a cluster the loop has handled, as an exact fraction, and
\* whether it reaches the probability threshold of the run.
ScoreOf(c) == << c.uniquePDBslen, c.total >>
ReachesThreshold(c) == ~FracLess(ScoreOf(c), args.prob)

\* The structures with an atom among the members the loop kept for a cluster.
HoldsQuery(c) == \E a \in Range(c.waterMols) : Struct(a) = Query

\* C1: once the resolution step has run on a cluster, its member list holds at
\* most one atom id of each structure.
C1_AtMostOnePerStructure ==
    \A i \in DOMAIN seen : \A s \in Names : Len(AtomsOf(seen[i].resolved, s)) <= 1

\* C1 witness: the resolution step has run on a cluster to which the clusterer
\* assigned two atoms of one structure.
C1_Witness ==
    \E i \in DOMAIN seen :
        Cardinality(StructsOf(seen[i].assigned)) < Len(seen[i].assigned)

\* C2 (as claimed): of a structure that contributes two or more atoms to a
\* cluster, the resolution keeps exactly the one that comes first in the
\* structure's file order; the atom of a structure that contributes one is kept.
C2_KeepsFirstOfEach ==
    \A i \in DOMAIN seen : \A s \in Names :
        LET mine == AtomsOf(seen[i].assigned, s) IN
        /\ Len(mine) >= 2 => AtomsOf(seen[i].resolved, s) = << mine[1] >>
        /\ Len(mine) = 1 => AtomsOf(seen[i].resolved, s) = mine

\* C3 (as claimed): the score of a cluster is the number of distinct structures
\* among the members the clusterer assigned to it, over the number of
\* structures of the list.
C3_ScoreCountsAssigned ==
    \A i \in DOMAIN seen :
        /\ seen[i].uniquePDBslen = Cardinality(StructsOf(seen[i].assigned))
        /\ seen[i].total = Len(proteins)

\* The clusters handled so far whose score reaches the threshold, in loop order.
RECURSIVE AcceptedOf(_)
AcceptedOf(cs) ==
    IF cs = << >> THEN << >>
    ELSE (IF ReachesThreshold(Head(cs)) THEN << Head(cs) >> ELSE << >>)
         \o AcceptedOf(Tail(cs))

LoopOver == clusterCalls = 1 /\ pc \in {"cleanup", "done", "crashed"}

\* The query atoms among the members of the clusters that reach the threshold.
AcceptedQueryAtoms ==
    { a \in UNION { Range(seen[i].waterMols) :
                      i \in { j \in DOMAIN seen : ReachesThreshold(seen[j]) } } :
        Struct(a) = Query }

\* C5 (as claimed): after the extraction the keys of atomNumbersProbDic are
\* exactly the atom numbers of the query atoms that are members of a cluster
\* reaching the threshold, and each is mapped to the score of its cluster.
C5_MappingIsQueryAtomsToScore ==
    LoopOver =>
        /\ DOMAIN atomNumbersProbDic = { AtomNo(a) : a \in AcceptedQueryAtoms }
        /\ \A i \in DOMAIN seen : \A a \in Range(seen[i].waterMols) :
              (ReachesThreshold(seen[i]) /\ Struct(a) = Query) =>
                  atomNumbersProbDic[AtomNo(a)]
                      = FloatDiv(seen[i].uniquePDBslen, seen[i].total)

\* C6: when the loop is over and no cluster that reaches the threshold holds a
\* query atom, the run ends with 'no conserved waters': the mapping is empty,
\* no exception was raised, no conserved-water file was written and the
\* structure was not displayed.
C6_NoConservedWatersIsNormal ==
    (LoopOver /\ AcceptedQueryAtoms = { }) =>
        /\ pc # "crashed"
        /\ outcome = "no conserved waters"
        /\ atomNumbersProbDic = << >>
        /\ \A f \in outdirFiles : f.kind # "withConservedWaters"
        /\ ~displayed

\* C6 witness: a finished run in which the query's atoms lie in clusters that
\* were rejected.
C6_Witness ==
    /\ pc = "done"
    /\ outcome = "no conserved waters"
    /\ \E i \in DOMAIN seen : HoldsQuery(seen[i]) /\ ~ReachesThreshold(seen[i])

\* The cell the claim expects at the position of structure s in the row of a
\* cluster with the given members.
ExpectedCell(members, s) ==
    IF \E a \in Range(members) : Struct(a) = s
    THEN AtomNo(CHOOSE a \in Range(members) : Struct(a) = s)
    ELSE NoWater

\* C7: the presence matrix has one row per cluster reaching the threshold, in
\* the order of the loop, and none for another cluster; a row is the score
\* (printed to at least 12 significant digits) followed by one cell per
\* structure of the list, in list order: the atom number of the structure's
\* member, or NoWater when it has none.
C7_PresenceMatrixRows ==
    clusterPresence.exists =>
        LET acc == AcceptedOf(seen) IN
        /\ clusterPresence.header = proteins
        /\ Len(clusterPresence.rows) = Len(acc)
        /\ \A j \in DOMAIN clusterPresence.rows :
              j <= Len(acc) =>
                  LET row == clusterPresence.rows[j]
                      c == acc[j]
                  IN  /\ RoundSig(row.score, Py2StrDigits)
                            = DecOfFraction(c.uniquePDBslen, c.total, Py2StrDigits)
                      /\ Len(row.cells) = Len(proteins)
                      /\ \A p \in DOMAIN proteins :
                            p <= Len(row.cells) =>
                                row.cells[p] = ExpectedCell(c.waterMols, proteins[p])

\* C7 witness: a row with a NoWater cell before an atom number, and a cluster
\* without a row.
C7_Witness ==
    /\ \E j \in DOMAIN clusterPresence.rows :
          LET cells == clusterPresence.rows[j].cells IN
          \E p, q \in DOMAIN cells : p < q /\ cells[p] = NoWater /\ cells[q] # NoWater
    /\ \E i \in DOMAIN seen : ~seen[i].row

\* s is t with some elements left out.
RECURSIVE IsSubseq(_, _)
IsSubseq(s, t) ==
    IF s = << >> THEN TRUE
    ELSE IF t = << >> THEN FALSE
    ELSE IF Head(s) = Head(t) THEN IsSubseq(Tail(s), Tail(t))
    ELSE IsSubseq(s, Tail(t))

\* The chains the caller supplied: the user-defined list, or the answer of the
\* sequence-cluster lookup.
SuppliedList == IF args.user_def_list = << >> THEN fetched ELSE args.user_def_list

\* C8 (as claimed): in a run that reaches the collector the structure list has
\* the query first, followed by the other structures in the order they were
\* supplied, and so have the header of the presence matrix and the merged ids.
C8_QueryFirstInSuppliedOrder ==
    pc \in {"collect", "cluster", "loop"} =>
        /\ proteins # << >>
        /\ proteins[1] = Query
        /\ IsSubseq(SelectIn(proteins, Names \ {Query}),
                    SelectIn(SuppliedList, Names \ {Query}))
        /\ clusterPresence.exists => clusterPresence.header[1] = Query
        /\ water_ids # << >> => Struct(water_ids[1]) = Query

\* C9 (as claimed): a run whose merged water count is at or above the ceiling
\* ends with 'too many waters'; it made no clustering call and produced no
\* presence matrix, no mapping and no other file in the output directory.
C9_TooManyWatersLeavesNothing ==
    (pc \in {"cleanup", "done"} /\ Len(proteins) > 1
        /\ Len(water_ids) >= WaterCeiling) =>
        /\ outcome = "too many waters"
        /\ clusterCalls = 0
        /\ ~clusterPresence.exists
        /\ atomNumbersProbDic = << >>
        /\ outdirFiles = { }

\* C10: a run with fewer than 2 structures in its list, or with 0 or 1 merged
\* water atoms, ends with the message of its case, without a clustering call,
\* without a mapping and without an exception.
C10_ShortCircuits ==
    LET short == /\ clusterCalls = 0
                 /\ seen = << >>
                 /\ ~clusterPresence.exists
                 /\ atomNumbersProbDic = << >>
                 /\ ~displayed
    IN
    /\ (pc \in {"cleanup", "done"} /\ Len(proteins) < 2) =>
          (outcome = "only one PDB structure" /\ short)
    /\ (pc \in {"cleanup", "done"} /\ Len(proteins) >= 2 /\ Len(water_ids) = 0) =>
          (outcome = "no water molecules" /\ short)
    /\ (pc \in {"cleanup", "done"} /\ Len(proteins) >= 2 /\ Len(water_ids) = 1) =>
          (outcome = "only one water molecule" /\ short)

\* C10 witness: a finished run whose structures hold a single water atom.
C10_Witness ==
    /\ pc = "done"
    /\ outcome = "only one water molecule"
    /\ Len(water_ids) = 1

(***************************************************************************)
(* The refinement filter.                                                  *)
(***************************************************************************)
RECURSIVE SeqSum(_)
SeqSum(s) == IF s = << >> THEN 0 ELSE s[1] + SeqSum(Tail(s))

\* Sums of the B-factors and of the occupancies of a water set, and the sum
\* of the squared deviations of n*B from the sum of the B-factors, which is
\* n^3 times the variance of the B-factors.
TotalB(ws) == SeqSum([ i \in DOMAIN ws |-> ws[i].bfac ])
TotalO(ws) == SeqSum([ i \in DOMAIN ws |-> ws[i].occ ])
TotalSqDev(ws) ==
    SeqSum([ i \in DOMAIN ws |->
               (Len(ws) * ws[i].bfac - TotalB(ws)) * (Len(ws) * ws[i].bfac - TotalB(ws)) ])

\* The metric of atom w in the water set ws is a number: no division by zero.
MetricDefined(mode, w, ws) ==
    IF mode = "Mobility" THEN TotalB(ws) > 0 /\ TotalO(ws) > 0 /\ w.occ > 0
    ELSE TotalSqDev(ws) > 0

\* The metric of atom w is at or above the cutoff of the mode.  Mobility:
\* (B/meanB)/(O/meanO) >= cutoff, the means being the totals over n.
\* Normalized B-factor: (B - meanB)/stddevB >= cutoff, that is B >= meanB and
\* (B - meanB)^2 >= cutoff^2 * variance, all multiplied by n^3.
MetricAtLeastCutoff(mode, w, ws) ==
    IF mode = "Mobility"
    THEN w.bfac * TotalO(ws) >= mobilityCutoff * w.occ * TotalB(ws)
    ELSE /\ Len(ws) * w.bfac >= TotalB(ws)
         /\ Len(ws) * (Len(ws) * w.bfac - TotalB(ws)) * (Len(ws) * w.bfac - TotalB(ws))
               >= normBCutoff * normBCutoff * TotalSqDev(ws)

\* The atoms of ws the filter of the mode flags.
FlaggedAtoms(mode, ws) ==
    { i \in DOMAIN ws :
        MetricDefined(mode, ws[i], ws) /\ MetricAtLeastCutoff(mode, ws[i], ws) }

\* A step of the run filters the structure at position fi of the list.
FiltersNow == pc = "filter" /\ fi' = fi - 1

\* C11: when the filter runs on the water file of a structure and keeps the
\* structure, the atoms left in the file are those of the file before, in
\* their order, and an atom was removed iff its metric, with the means and the
\* deviation over all atoms of the file before the removal, is at or above the
\* cutoff of the mode.
C11_KeptStructureLosesFlaggedAtoms ==
    [][ (FiltersNow /\ proteins[fi] # Query /\ proteins' = proteins) =>
            LET before == waterFile[proteins[fi]]
                after == waterFile'[proteins[fi]]
            IN  /\ IsSubseq(after, before)
                /\ \A i \in DOMAIN before :
                      MetricDefined(args.refinement, before[i], before) =>
                          ( before[i] \notin Range(after)
                              <=> MetricAtLeastCutoff(args.refinement, before[i], before) )
      ]_vars

\* C11 witness: the filter is over, and a structure still in the list has lost
\* an atom and kept others.
C11_Witness ==
    /\ pc = "collect"
    /\ \E s \in Range(proteins) :
          /\ waterFile[s] # << >>
          /\ Len(waterFile[s]) < Len(SavedWaterFile(s))

\* C12: the filter removes a structure other than the query from the list iff
\* it flags more than half of the atoms of its water file; it never removes
\* the query; a removal leaves the other structures in their order, and the
\* run goes on.
C12_RemovedIffMoreThanHalf ==
    [][ FiltersNow =>
            LET s == proteins[fi]
                n == Len(waterFile[s])
                count == Cardinality(FlaggedAtoms(args.refinement, waterFile[s]))
                without == SubSeq(proteins, 1, fi - 1)
                               \o SubSeq(proteins, fi + 1, Len(proteins))
            IN  /\ s = Query => proteins' = proteins
                /\ (s # Query /\ 2 * count > n) => proteins' = without
                /\ (s # Query /\ 2 * count <= n) => proteins' = proteins
                /\ pc' = "filter"
                /\ outcome' = outcome
      ]_vars

\* C12 witness: the filter is over; it removed a structure, and the query and
\* another structure are still in the list.
C12_Witness ==
    /\ pc = "collect"
    /\ Len(proteins) < Len(BuildChainsList(args, fetched))
    /\ Query \in Range(proteins)
    /\ Len(proteins) >= 2

\* The water file of every structure as it was saved, before any filtering.
SavedFiles == [ s \in Names |-> SavedWaterFile(s) ]

\* C13: the water file of a structure is at any time a sub-sequence of the
\* file as it was saved, and the ids the collector merges are a sub-sequence of
\* the ids of the saved files of the listed structures.
C13_FilterOnlyRemoves ==
    /\ \A s \in DOMAIN waterFile : IsSubseq(waterFile[s], SavedWaterFile(s))
    /\ pc \in {"cluster", "loop", "cleanup", "done"} =>
          IsSubseq(water_ids, CollectIds(proteins, SavedFiles))

\* C13 witness: the collector has merged fewer ids than the saved files of the
\* listed structures hold.
C13_Witness ==
    /\ pc = "cluster"
    /\ Len(water_ids) < Len(CollectIds(proteins, SavedFiles))

(***************************************************************************)
(* Scores, determinism and idempotence.                                    *)
(***************************************************************************)
\* C14: the score of every cluster lies in [0, 1]: the structures counted are
\* at most as many as the structures of the list, which is never empty when a
\* score is computed, and a score written to the presence matrix is 1 or below.
C14_ScoreInUnitInterval ==
    /\ \A i \in DOMAIN seen :
          /\ seen[i].total > 0
          /\ seen[i].uniquePDBslen >= 0
          /\ seen[i].uniquePDBslen <= seen[i].total
    /\ \A j \in DOMAIN clusterPresence.rows :
          LET score == clusterPresence.rows[j].score
          IN  score.ip = 0 \/ (score.ip = 1 /\ score.frac = << >>)

\* C14 witness: a cluster with every structure of the list (score 1) and one
\* left without a member (score 0) have been scored.
C14_Witness ==
    /\ \E i \in DOMAIN seen : seen[i].uniquePDBslen = seen[i].total
    /\ \E i \in DOMAIN seen : seen[i].uniquePDBslen = 0

\* What the loop makes of the cluster with label b, whatever the order of the
\* loop: its members, the number of structures counted and the text of its score.
MembersOf(b) ==
    OrderByList(ResolveCluster(fcDic[b]), ProteinsNumbers(proteins), Len(proteins) - 1)
CountOf(b) == Cardinality(StructsOf(MembersOf(b)))
ConservedLabels ==
    { b \in DOMAIN fcDic :
        /\ ~FracLess(<< CountOf(b), Len(proteins) >>, args.prob)
        /\ Query \in StructsOf(MembersOf(b)) }

\* C15: the mapping a run ends with is a function of the structure list, the
\* clusters the clusterer returned and the configuration alone: the query atoms
\* of the conserved clusters, each with the score of its cluster as it is read
\* back from the text, in whatever order the loop took the clusters.
C15_MappingIndependentOfLoopOrder ==
    (LoopOver /\ pc # "crashed") =>
        /\ DOMAIN atomNumbersProbDic =
              { AtomNo(a) : a \in { x \in UNION { Range(MembersOf(b)) : b \in ConservedLabels } :
                                      Struct(x) = Query } }
        /\ \A b \in ConservedLabels : \A a \in Range(MembersOf(b)) :
              Struct(a) = Query =>
                  atomNumbersProbDic[AtomNo(a)]
                      = FloatOfStr(StrOfFloat(py, FloatDiv(CountOf(b), Len(proteins))))

\* C15 witness: a finished run whose loop took two conserved clusters in the
\* order opposite to their labels, with two atoms in the mapping.
C15_Witness ==
    /\ pc = "done"
    /\ Cardinality(DOMAIN atomNumbersProbDic) = 2
    /\ \E i, j \in DOMAIN seen :
          /\ i < j
          /\ seen[i].clusterNumber > seen[j].clusterNumber
          /\ seen[i].conserved
          /\ seen[j].conserved

\* C16: the resolution and the score applied again to the members and the
\* score the loop computed for a cluster give the same members and the same score.
C16_ResolveAndScoreIdempotent ==
    \A i \in DOMAIN seen :
        LET again == OrderByList(ResolveCluster(seen[i].waterMols),
                                 ProteinsNumbers(proteins), Len(proteins) - 1)
        IN  /\ again = seen[i].waterMols
            /\ Cardinality(StructsOf(again)) = seen[i].uniquePDBslen
            /\ Len(proteins) = seen[i].total

\* C16 witness: the loop has handled a cluster whose members the resolution
\* changed and which kept a member.
C16_Witness ==
    \E i \in DOMAIN seen :
        /\ Len(seen[i].resolved) < Len(seen[i].assigned)
        /\ seen[i].waterMols # << >>

(***************************************************************************)
(* Scenario A: three structures with one water atom each, no refinement,   *)
(* probability cutoff 0.5.  The run is taken up where the collector        *)
(* starts, after the superimposition saved the three water files.          *)
(***************************************************************************)
ScenarioAWaterFile(s) == << HetAtm(20 + NameRank(s), 100, 2000) >>

ScenarioAArguments ==
    { a \in Arguments :
        /\ NumberOfFaults(a) = 0
        /\ a.prob = << 1, 2 >>
        /\ a.refinement = "No refinement"
        /\ Len(a.user_def_list) = 3
        /\ IsInjective(a.user_def_list)
        /\ Query \in Range(a.user_def_list) }

InitScenarioA ==
    /\ pc = "collect"
    /\ py \in {2, 3}
    /\ args \in ScenarioAArguments
    /\ fetched = << >>
    /\ tmp_dir = TRUE
    /\ proteins = args.user_def_list
    /\ waterFile = [ s \in Range(args.user_def_list) |-> ScenarioAWaterFile(s) ]
    /\ fi = Len(args.user_def_list)
    /\ water_ids = << >>
    /\ fcDic = << >>
    /\ pending = { }
    /\ seen = << >>
    /\ clusterPresence = NoFile
    /\ conservedWaterDic = << >>
    /\ cwm_count = 0
    /\ atomNumbersProbDic = << >>
    /\ outdirFiles = IF args.save_sup_files
                     THEN { [kind |-> "superimposed chain", pdb |-> s] :
                              s \in Range(args.user_def_list) }
                     ELSE { }
    /\ displayed = FALSE
    /\ clusterCalls = 0
    /\ outcome = ""
    /\ requests = {"www.rcsb.org", "experimentalTechnique", "entityId", "files"}
    /\ X = << >>
    /\ Z = << >>
    /\ T = << >>
    /\ pdbChain = << >>

NextScenarioA ==
    \/ Collect
    \/ Cluster
    \/ ClusterStep
    \/ Extract
    \/ Cleanup

SpecScenarioA == InitScenarioA /\ [][NextScenarioA]_vars

\* The clusterer put the first two atoms in one cluster and the third alone.
PairAndSingleton ==
    /\ Len(water_ids) = 3
    /\ DOMAIN fcDic = {1, 2}
    /\ fcDic[1] = << water_ids[1], water_ids[2] >>
    /\ fcDic[2] = << water_ids[3] >>

\* C17 (as claimed): in scenario A, when the clusterer puts the first two atoms
\* in one cluster and the third alone, the pair scores 2/3 and is accepted, the
\* singleton scores 1/3 and is rejected, and, the query being one of the first
\* two structures, the mapping holds exactly the query's atom with the score 2/3.
C17_ScenarioAMapsQueryToTwoThirds ==
    (LoopOver /\ PairAndSingleton) =>
        /\ \A i \in DOMAIN seen :
              /\ seen[i].clusterNumber = 1 => (ScoreOf(seen[i]) = << 2, 3 >> /\ seen[i].row)
              /\ seen[i].clusterNumber = 2 => (ScoreOf(seen[i]) = << 1, 3 >> /\ ~seen[i].row)
        /\ Len(clusterPresence.rows) = 1
        /\ Query \in {proteins[1], proteins[2]} =>
              /\ DOMAIN atomNumbersProbDic = { DecStr(20 + NameRank(Query)) }
              /\ atomNumbersProbDic[DecStr(20 + NameRank(Query))] = FloatDiv(2, 3)

(***************************************************************************)
(* Validation of the arguments and order of the stages.                    *)
(***************************************************************************)
\* C18 (as claimed): a run aborted for a malformed argument has reported it,
\* has made no network request, and leaves no temporary directory, no
\* structure list and no output file.
C18_RejectedBeforeAnyIO ==
    pc = "rejected" =>
        /\ outcome # ""
        /\ requests = { }
        /\ ~tmp_dir
        /\ proteins = << >>
        /\ outdirFiles = { }

\* The arguments lie in the domains the claim names (resolution and
\* coefficient in tenths of an Angstrom).
InClaimedDomains(a) ==
    /\ a.seq_id \in {"30", "40", "50", "70", "90", "95", "100"}
    /\ a.resolution <= 30
    /\ a.inconsistency_coefficient >= 0
    /\ a.inconsistency_coefficient <= 28
    /\ ~FracLess(a.prob, << 2, 5 >>)
    /\ ~FracLess(<< 1, 1 >>, a.prob)

\* C19 (as claimed): a run is past the validation only with arguments in their
\* domains, and a run with an argument outside its domain never builds the
\* structure list.
C19_ValidatedOnlyInDomains ==
    /\ pc \notin {"start", "rejected"} => InClaimedDomains(args)
    /\ ~InClaimedDomains(args) => proteins = << >>

\* The refinement loop is over for every structure of the list.
FilterFinished == args.refinement = "No refinement" \/ fi = 0

\* Every id the collector merged has been given to a cluster.
AllClustered ==
    \A i \in DOMAIN water_ids : \E b \in DOMAIN fcDic : water_ids[i] \in Range(fcDic[b])

\* The extraction has run.
Extracted ==
    \/ outcome \in {"conserved waters", "no conserved waters"}
    \/ atomNumbersProbDic # << >>
    \/ displayed

\* C20 (amended): the filter is over for every structure before an atom is
\* collected, every atom is collected before the clustering, every atom is
\* clustered before a cluster is resolved, and every cluster is resolved and
\* scored before the extraction; resolution and scoring go cluster by cluster.
C20_StagesInOrder ==
    /\ (water_ids # << >> \/ pc \in {"cluster", "loop"}) => FilterFinished
    /\ clusterCalls = 1 => water_ids = CollectIds(proteins, waterFile)
    /\ seen # << >> => (clusterCalls = 1 /\ AllClustered)
    /\ \A i \in DOMAIN seen : seen[i].clusterNumber \in DOMAIN fcDic \ pending
    /\ Extracted => (pending = { } /\ Len(seen) = Cardinality(DOMAIN fcDic))

\* C20 witness: a finished run that filtered, collected, clustered, handled two
\* or more clusters and extracted.
C20_Witness ==
    /\ pc = "done"
    /\ args.refinement # "No refinement"
    /\ Len(seen) >= 2
    /\ atomNumbersProbDic # << >>

\* C20 (as claimed): as above, and a cluster is scored only when every cluster
\* has been resolved.
C20_StrictStageOrder ==
    /\ C20_StagesInOrder
    /\ seen # << >> => pending = { }

(***************************************************************************)
(* Claims on the clusterer.                                                *)
(***************************************************************************)
\* The flat clusters have been cut from the tree.
FlatClustersCut == pc = "fcluster"

\* C21: whatever the points, the linkage method and the threshold t, no
\* observation lies at a distance less than t from an observation of another
\* flat cluster.
C21_ClustersNotCloserThanThreshold ==
    FlatClustersCut =>
        \A i, j \in DOMAIN X :
            T[i] # T[j] => Euclidean(X[i], X[j]) >= args.inconsistency_coefficient

\* The same for single linkage alone.
C21_SingleLinkageOnly ==
    FlatClustersCut /\ args.clustering_method = "single" =>
        \A i, j \in DOMAIN X :
            T[i] # T[j] => Euclidean(X[i], X[j]) > args.inconsistency_coefficient

(***************************************************************************)
(* Claims on the arguments of a run with a user-defined list.              *)
(***************************************************************************)
\* The arguments with the two cutoffs set to values of their domains.
WithCutoffsReset(a) == [a EXCEPT !.seq_id = "95", !.resolution = 18]

\* C22: with a user-defined list the sequence-identity cutoff and the
\* resolution cutoff have no effect: the run is rejected exactly when the run
\* with other values of the two cutoffs is, with the same message, and the
\* structure list is the one that run builds.
C22_UserListDisablesCutoffs ==
    (args.user_def_list # << >> /\ pc # "start") =>
        /\ (pc = "rejected") <=> (FirstFailure(WithCutoffsReset(args)) # "")
        /\ pc = "rejected" => outcome = FirstFailure(WithCutoffsReset(args))
        /\ pc = "listed" =>
              proteins = BuildChainsList(WithCutoffsReset(args), fetched)

(***************************************************************************)
(* Claims on pycwms.py.                                                    *)
(***************************************************************************)
\* makePDBwithConservedWaters of pycwms has returned after its loop over the
\* clusters.
PycwmsLoopOver == pc = "returned" /\ clusterCalls = 1

\* The degree of conservation of a cluster, distinct structures over the
\* structures evaluated, is above the cutoff.
DegreeAboveCutoff(members) ==
    Cardinality(StructsOf(members)) * args.prob[2]
        > args.prob[1] * Cardinality(Range(proteins))

\* C23: in pycwms a water of the query is in the reported mapping exactly when
\* the degree of conservation of its cluster is above the cutoff.
C23_ConservedIffAboveCutoff ==
    PycwmsLoopOver =>
        \A i \in DOMAIN seen : \A a \in Range(seen[i].assigned) :
            Struct(a) = Query =>
                (AtomNo(a) \in DOMAIN atomNumbersProbDic
                    <=> DegreeAboveCutoff(seen[i].assigned))

\* The refinement step and the 'make sure' step of pycwms are over.
PycwmsListFinal == pc \in {"gather", "group", "scan", "returned"}

\* C28: after the refinement step and the 'make sure' step the list of pycwms
\* holds the query once and no structure twice, so the number of structures
\* the score is divided by is the number of distinct structures, and every
\* query atom id is collected once.
C28_QueryOnceNoStructureTwice ==
    PycwmsListFinal =>
        /\ Count(proteins, {Query}) = 1
        /\ IsInjective(proteins)
        /\ Len(proteins) = Cardinality(Range(proteins))
        /\ pc # "gather" => IsInjective(AtomsOf(water_ids, Query))

(***************************************************************************)
(* Claims on the filter of a structure without variance.                   *)
(***************************************************************************)
\* The water atoms of a file are one or more and all have the same B-factor.
ZeroVariance(ws) ==
    ws # << >> /\ \A i, j \in DOMAIN ws : ws[i].bfac = ws[j].bfac

\* C24: in normalized-B-factor mode the filter of a structure whose water
\* atoms all have the same B-factor removes no atom, keeps the structure in
\* the list, and the run goes on.
C24_ZeroVarianceIsGuarded ==
    [][ ( /\ FiltersNow
          /\ args.refinement = "Normalized B-factor"
          /\ proteins[fi] # Query
          /\ ZeroVariance(waterFile[proteins[fi]]) )
        => /\ waterFile' = waterFile
           /\ proteins' = proteins
           /\ pc' = "filter"
           /\ outcome' = outcome
      ]_vars

(***************************************************************************)
(* Claims on the chain list of the sequence-cluster path.                  *)
(***************************************************************************)
\* The chains other than the query that pass the resolution filter.
PassingOthers ==
    { s \in Names \ {Query} :
        HasResolution(s) /\ ResolutionOf(s) <= args.resolution }

\* C25: on the sequence-cluster path the list built from the fetched chains
\* has the query first and once, followed by the other chains that passed
\* the resolution filter in the order in which they were fetched.
C25_QueryFirstOnceOthersInOrder ==
    (pc = "listed" /\ args.user_def_list = << >>) =>
        /\ proteins # << >>
        /\ proteins[1] = Query
        /\ Count(proteins, {Query}) = 1
        /\ Tail(proteins) = SelectIn(fetched, PassingOthers)

\* C25 witness: the query was fetched after another chain and failed the
\* resolution filter, which another chain passed; it heads the list.
C25_Witness ==
    /\ pc = "listed"
    /\ args.user_def_list = << >>
    /\ Len(fetched) >= 2
    /\ fetched[1] # Query
    /\ Query \in Range(fetched)
    /\ ResolutionOf(Query) > args.resolution
    /\ Len(proteins) >= 2
    /\ proteins[1] = Query

(***************************************************************************)
(* Claims on add_protein_from_string.                                      *)
(***************************************************************************)
\* The call of add_protein_from_string is over.
CallOver == pc \in {"returned", "raised"}

\* The part of the string that is taken as the PDB id.
IdPart(text) == Split(Strip(text), ":")[1]

NumberOfColons(text) == Cardinality({ i \in DOMAIN text : text[i] = ":" })

\* C26: a string without a colon is taken whole as the PDB id, and one
\* protein with that id is appended; a string whose id part is not 4
\* characters long is rejected by the assertion and the list is as before.
C26_NoColonIsThePdbId ==
    CallOver =>
        /\ (NumberOfColons(pdbChain) = 0 /\ Len(Strip(pdbChain)) = 4) =>
              /\ pc = "returned"
              /\ Len(proteins) = Len(ListBefore) + 1
              /\ SubSeq(proteins, 1, Len(ListBefore)) = ListBefore
              /\ proteins[Len(proteins)].pdb_id = Lower(Strip(pdbChain))
        /\ (NumberOfColons(pdbChain) <= 1 /\ Len(IdPart(pdbChain)) # 4) =>
              /\ pc = "raised"
              /\ outcome = "AssertionError"
              /\ proteins = ListBefore

\* The second half of C26 alone.
C26_ShortIdRejected ==
    (CallOver /\ NumberOfColons(pdbChain) <= 1 /\ Len(IdPart(pdbChain)) # 4) =>
        /\ pc = "raised"
        /\ outcome = "AssertionError"
        /\ proteins = ListBefore

(***************************************************************************)
(* Claims on the query and the filter in pywater.py.                       *)
(***************************************************************************)
\* C27: whatever the filter mode, the filter leaves the water file of the
\* query as it was saved and the query in the list, and the query ids that
\* are collected for the clusterer are those of all its water atoms.
C27_QueryExemptFromFilter ==
    Query \in DOMAIN waterFile =>
        /\ waterFile[Query] = SavedWaterFile(Query)
        /\ Query \in Range(proteins)
        /\ water_ids # << >> =>
              Range(AtomsOf(water_ids, Query))
                  = Range(WaterIdsOf(Query, SavedWaterFile(Query)))

\* C27 witness: a filter that would flag an atom of the query has run, and
\* that atom is among the ids handed to the clusterer.
C27_Witness ==
    /\ pc = "cluster"
    /\ args.refinement # "No refinement"
    /\ Query \in DOMAIN waterFile
    /\ \E i \in Flagged(args.refinement, SavedWaterFile(Query)) :
          AtomId(Query, SavedWaterFile(Query)[i].num) \in Range(water_ids)

(***************************************************************************)
(* Claims on the count of conserved waters.                                *)
(***************************************************************************)
\* The run reported conserved waters.
ReportsConservedWaters == outcome = "conserved waters"

\* The clusters that were accepted and hold a query atom.
AcceptedWithQuery ==
    { i \in DOMAIN seen : ReachesThreshold(seen[i]) /\ HoldsQuery(seen[i]) }

\* C29: when a run reports conserved waters, cwm_count is the number of
\* entries of atomNumbersProbDic and the number of accepted clusters that
\* hold a query atom; each of these holds one query atom, and no query atom
\* is in two of them.
C29_CountIsMappingSize ==
    ReportsConservedWaters =>
        /\ cwm_count = Cardinality(DOMAIN atomNumbersProbDic)
        /\ cwm_count = Cardinality(AcceptedWithQuery)
        /\ \A i \in AcceptedWithQuery : Len(AtomsOf(seen[i].waterMols, Query)) = 1
        /\ \A i, j \in AcceptedWithQuery :
              i # j => Range(AtomsOf(seen[i].waterMols, Query))
                          \cap Range(AtomsOf(seen[j].waterMols, Query)) = { }


(***************************************************************************)
(* C30: the temporary directory                                            *)
(***************************************************************************)
\* The run has ended: it returned at a check of the arguments, it reached the
\* end of FindConservedWaters, or an exception left it.
RunEnded == pc \in {"rejected", "done", "crashed"}

\* C30: a run that created the temporary directory (line 806) has removed it
\* when the run ends, whatever the outcome reached after the creation,
\* a failed download or a failure of the pipeline included; a run rejected by
\* the checks of the arguments never has one.  A run of FindConservedWaters
\* is finite, so "eventually removes it before the run ends" is the statement
\* that no ended run holds the directory.
C30_TempDirRemovedAtEnd ==
    /\ RunEnded => ~tmp_dir
    /\ pc \in {"start", "rejected"} => ~tmp_dir

\* The part of C30 that the code keeps: the runs that end without an exception
\* have removed the directory, and rejected runs never create it.
C30_RemovedUnlessException ==
    /\ pc \in {"rejected", "done"} => ~tmp_dir
    /\ pc = "start" => ~tmp_dir
    /\ pc \notin {"start", "rejected", "done"} => tmp_dir

====
